---- MODULE Spec2Model ----
(***************************************************************************)
(* A model of the resource operations of the vSphere Terraform provider.  *)
(*                                                                         *)
(* Terraform core runs one resource operation at a time against a         *)
(* resource instance: it validates the configuration against the schema,  *)
(* then calls the create / read / update / delete function of the         *)
(* resource.  Each function issues remote API calls one after another;    *)
(* every remote call either succeeds or returns an error, which is the    *)
(* environment's choice.  The model records the calls issued (calls), the *)
(* calls that returned an error (errs) and the value the operation        *)
(* returned to Terraform (ret).                                            *)
(***************************************************************************)
EXTENDS Integers, Sequences, FiniteSets, TLC

VARIABLES
  op,            \* the resource operation in progress ("idle" before one starts)
  pc,            \* position inside the operation
  d,             \* *schema.ResourceData: the attribute values the operation reads and writes
  unknown,       \* attributes whose configured value is not known when the schema is validated
  ret,           \* what the operation returned: "none" (still running), "ok", or the error
  calls,         \* the remote API calls issued so far, in order
  errs,          \* the remote API calls that returned an error, in order
  failureCount,  \* WaitForSupervisorEnable: the error counter
  info,          \* the status the last poll reported ("none" before the first poll)
  now,           \* seconds since the polling loop started
  polls,         \* number of polls the running loop has made
  ctxDone,       \* ctx.Done() is closed: deadline exceeded or operation cancelled
  tickPending,   \* a tick is waiting in ticker.C
  spins,         \* loop iterations that took the ctx.Done() case and went round again
  consecutiveErrors,       \* observed: ERROR polls in a row up to the last poll
  errorsSinceConfiguring,  \* observed: ERROR polls since the last CONFIGURING poll
  remote,        \* the part of the platform's state the operation touches
  loc            \* remaining local variables of the operation

vars == <<op, pc, d, unknown, ret, calls, errs, failureCount, info, now, polls,
          ctxDone, tickPending, spins, consecutiveErrors, errorsSinceConfiguring,
          remote, loc>>

\* what the polls of a loop have shown so far
observed == <<info, polls, consecutiveErrors, errorsSinceConfiguring>>
\* the clock, the ticker and the context of a loop
timing == <<now, ctxDone, tickPending, spins>>
loopVars == <<failureCount, observed, timing>>

----------------------------------------------------------------------------
(* Bounds of the model *)

\* polls a status loop is followed for
MaxPolls == 9
\* iterations of a loop spinning on a closed ctx.Done() that are counted
MaxSpins == 2

----------------------------------------------------------------------------
(* Program constants *)

\* time.NewTicker(time.Minute * time.Duration(1)), in seconds
SupervisorTickerSeconds == 60
\* time.NewTicker(time.Second * time.Duration(15))
NamespaceTickerSeconds == 15
\* context.WithTimeout(ctx, time.Minute*time.Duration(2)), in seconds
NamespaceTimeoutSeconds == 120

\* namespace.ConfigStatus values of the platform
RunningConfigStatus == "RUNNING"
ErrorConfigStatus == "ERROR"
ConfiguringConfigStatus == "CONFIGURING"
RemovingConfigStatus == "REMOVING"
ConfigStatuses ==
  {RunningConfigStatus, ErrorConfigStatus, ConfiguringConfigStatus, RemovingConfigStatus}

\* a remote call that returns an error instead of a result
ApiErr == "err"

----------------------------------------------------------------------------
(* Helpers *)

\* an optional value (a nil-able pointer or interface): <<>> is nil, <<v>> is v
Nil == <<>>
Some(v) == <<v>>
IsNil(o) == o = <<>>

IsFailure(r) == r \notin {"none", "ok"}

\* the names of the remote calls issued so far
CallNames == {calls[i].api : i \in 1..Len(calls)}
CallsNamed(n) == {i \in 1..Len(calls) : calls[i].api = n}

Call(api, arg) == [api |-> api, arg |-> arg]

\* diag.FromErr(err) of the error returned by remote call api
FromErr(api) == "error from " \o api

NoRemote == [none |-> TRUE]
NoLoc == [none |-> TRUE]
NoData == [id |-> ""]

Idle ==
  /\ op = "idle" /\ pc = "idle"

Init ==
  /\ op = "idle"
  /\ pc = "idle"
  /\ d = NoData
  /\ unknown = {}
  /\ ret = "none"
  /\ calls = <<>>
  /\ errs = <<>>
  /\ failureCount = 0
  /\ info = "none"
  /\ now = 0
  /\ polls = 0
  /\ ctxDone = FALSE
  /\ tickPending = FALSE
  /\ spins = 0
  /\ consecutiveErrors = 0
  /\ errorsSinceConfiguring = 0
  /\ remote = NoRemote
  /\ loc = NoLoc

\* the operation returns r to Terraform
Return(r) ==
  /\ ret' = r
  /\ pc' = "done"

----------------------------------------------------------------------------
(* Schema validation (terraform-plugin-sdk): ConflictsWith                *)

\* a variant of ConflictsWith for a schema without the declaration
ConflictsWithUndeclared(aSet, aName, bSet, bName) == FALSE

\* An attribute with ConflictsWith is rejected when it is set and a
\* conflicting attribute is set too.  The SDK defers the check for a value
\* that is not yet known.  Terraform validates a configuration when it plans
\* the operation and again, with every value known, when it applies it.
ConflictsWith(aSet, aName, bSet, bName) ==
  /\ aSet /\ bSet
  /\ aName \notin unknown
  /\ bName \notin unknown

----------------------------------------------------------------------------
(* vsphere_supervisor_v2: building the enable specification               *)

ProxySettingsSources == {"VC_INHERITED", "CLUSTER_CONFIGURED", "NONE"}

\* a result of a build function: the value and the error ("" is nil)
Built(v, e) == [value |-> v, err |-> e]

\* buildControlPlaneNetworkBacking
buildControlPlaneNetworkBacking(backingData) ==
  LET hasNetwork == backingData.network # ""
      hasSegments == Len(backingData.segments) > 0
      numBackings == (IF hasNetwork THEN 1 ELSE 0) + (IF hasSegments THEN 1 ELSE 0)
      result == [Network |-> IF hasNetwork THEN Some(backingData.network) ELSE Nil,
                 NetworkSegment |-> IF hasSegments THEN Some(backingData.segments) ELSE Nil,
                 Backing |-> IF hasSegments THEN "NETWORK_SEGMENT"
                             ELSE IF hasNetwork THEN "NETWORK" ELSE ""]
  IN  Built(result,
            IF numBackings > 1
            THEN "control plane configuration cannot specify both 'network' and 'segments'"
            ELSE "")

\* the proxy part of buildControlPlaneNetwork: proxyAttr is the "proxy" list
\* (at most one block).  The result's Proxy is Nil when no block is given.
buildProxy(proxyAttr) ==
  IF Len(proxyAttr) = 0 THEN Built(Nil, "")
  ELSE
    LET proxy == proxyAttr[1]
        isClusterConfigured == proxy.settings_source = "CLUSTER_CONFIGURED"
        base == [ProxySettingsSource |-> proxy.settings_source,
                 HTTPProxyConfig |-> Nil, HTTPSProxyConfig |-> Nil,
                 TLSRootCABundle |-> Nil, NoProxyConfig |-> Nil]
        p1 == IF proxy.http_config # ""
              THEN [base EXCEPT !.HTTPProxyConfig = Some(proxy.http_config)] ELSE base
        p2 == IF proxy.https_config # ""
              THEN [p1 EXCEPT !.HTTPSProxyConfig = Some(proxy.https_config)] ELSE p1
        p3 == IF proxy.tls_root_ca_bundle # ""
              THEN [p2 EXCEPT !.TLSRootCABundle = Some(proxy.tls_root_ca_bundle)] ELSE p2
        p4 == IF ~IsNil(proxy.no_proxy_config)
              THEN [p3 EXCEPT !.NoProxyConfig = Some(proxy.no_proxy_config[1])] ELSE p3
    IN  IF proxy.http_config # "" /\ isClusterConfigured
        THEN Built(Some(base),
               "'http_config' cannot be specified if 'settings_source' is 'CLUSTER_CONFIGURED'")
        ELSE IF proxy.https_config # "" /\ isClusterConfigured
        THEN Built(Some(p1),
               "'https_config' cannot be specified if 'settings_source' is 'CLUSTER_CONFIGURED'")
        ELSE IF proxy.tls_root_ca_bundle # "" /\ isClusterConfigured
        THEN Built(Some(p2),
               "'tls_root_ca_bundle' cannot be specified if 'settings_source' is 'CLUSTER_CONFIGURED'")
        ELSE IF ~IsNil(proxy.no_proxy_config) /\ isClusterConfigured
        THEN Built(Some(p3),
               "'no_proxy_config' cannot be specified if 'settings_source' is 'CLUSTER_CONFIGURED'")
        ELSE Built(Some(p4), "")

\* buildControlPlaneNetwork
buildControlPlaneNetwork(controlPlaneNetworkData) ==
  LET backing == buildControlPlaneNetworkBacking(controlPlaneNetworkData.backing)
      proxy == buildProxy(controlPlaneNetworkData.proxy)
  IN  IF backing.err # ""
      THEN Built([Backing |-> Nil, Proxy |-> Nil], backing.err)
      ELSE Built([Backing |-> Some(backing.value), Proxy |-> proxy.value], proxy.err)

\* buildControlPlane
buildControlPlane(rd) ==
  LET network == buildControlPlaneNetwork(rd.control_plane_network)
  IN  IF network.err # ""
      THEN Built([Network |-> Nil], network.err)
      ELSE Built([Network |-> Some(network.value)], "")


\* a variant of buildWorkloadNetwork that does not count the networks
buildWorkloadNetworkUncounted(workloadNetworkData) ==
  LET hasVsphere == Len(workloadNetworkData.vsphere) > 0
      hasNsx == Len(workloadNetworkData.nsx) > 0
      hasNsxVpc == Len(workloadNetworkData.nsx_vpc) > 0
      result == [NetworkType |-> IF hasNsxVpc THEN "NSX_VPC"
                                 ELSE IF hasNsx THEN "NSXT"
                                 ELSE IF hasVsphere THEN "VSPHERE" ELSE "",
                 VSphere |-> IF hasVsphere THEN Some(workloadNetworkData.vsphere[1]) ELSE Nil,
                 NSX |-> IF hasNsx THEN Some(workloadNetworkData.nsx[1]) ELSE Nil,
                 NSXVPC |-> IF hasNsxVpc THEN Some(workloadNetworkData.nsx_vpc[1]) ELSE Nil]
  IN  Built(result, "")

\* buildWorkloadNetwork: vsphere, nsx and nsx_vpc are the optional nested
\* blocks (lists of at most one block)
buildWorkloadNetwork(workloadNetworkData) ==
  LET hasVsphere == Len(workloadNetworkData.vsphere) > 0
      hasNsx == Len(workloadNetworkData.nsx) > 0
      hasNsxVpc == Len(workloadNetworkData.nsx_vpc) > 0
      numNetworks == (IF hasVsphere THEN 1 ELSE 0) + (IF hasNsx THEN 1 ELSE 0)
                     + (IF hasNsxVpc THEN 1 ELSE 0)
      result == [NetworkType |-> IF hasNsxVpc THEN "NSX_VPC"
                                 ELSE IF hasNsx THEN "NSXT"
                                 ELSE IF hasVsphere THEN "VSPHERE" ELSE "",
                 VSphere |-> IF hasVsphere THEN Some(workloadNetworkData.vsphere[1]) ELSE Nil,
                 NSX |-> IF hasNsx THEN Some(workloadNetworkData.nsx[1]) ELSE Nil,
                 NSXVPC |-> IF hasNsxVpc THEN Some(workloadNetworkData.nsx_vpc[1]) ELSE Nil]
  IN  Built(result,
            IF numNetworks > 1 THEN "workload can only have one type of network" ELSE "")

\* buildEdge: foundation, haproxy, nsx and nsx_advanced are the optional
\* nested load balancer blocks
buildEdge(edgeData) ==
  LET hasFoundation == Len(edgeData.foundation) > 0
      hasHaproxy == Len(edgeData.haproxy) > 0
      hasNsx == Len(edgeData.nsx) > 0
      hasNsxAdvanced == Len(edgeData.nsx_advanced) > 0
      numLoadBalancers == (IF hasFoundation THEN 1 ELSE 0) + (IF hasHaproxy THEN 1 ELSE 0)
                          + (IF hasNsx THEN 1 ELSE 0) + (IF hasNsxAdvanced THEN 1 ELSE 0)
      result == [Provider |-> IF hasNsxAdvanced THEN Some("NSX_ADVANCED")
                              ELSE IF hasNsx THEN Some("NSX")
                              ELSE IF hasHaproxy THEN Some("HAPROXY")
                              ELSE IF hasFoundation THEN Some("VSPHERE_FOUNDATION") ELSE Nil]
  IN  Built(result,
            IF numLoadBalancers > 1 THEN "edge can only have one type of load balancer" ELSE "")

\* buildWorkloads
buildWorkloads(rd) ==
  LET network == buildWorkloadNetwork(rd.workloads_network)
      edge == buildEdge(rd.workloads_edge)
  IN  IF network.err # ""
      THEN Built([Network |-> Some(network.value), Edge |-> Nil], network.err)
      ELSE IF edge.err # ""
      THEN Built([Network |-> Some(network.value), Edge |-> Some(edge.value)], edge.err)
      ELSE Built([Network |-> Some(network.value), Edge |-> Some(edge.value)], "")

----------------------------------------------------------------------------
(* vsphere_supervisor_v2: the configurations Terraform hands to the       *)
(* resource                                                                *)

ProxyBlocks ==
  [settings_source : ProxySettingsSources,
   http_config : {"", "http://proxy"},
   https_config : {"", "https://proxy"},
   tls_root_ca_bundle : {"", "pem"},
   no_proxy_config : {Nil, Some(<<>>), Some(<<"localhost">>)}]

BackingBlocks == [network : {"", "network-1"}, segments : {<<>>, <<"segment-1">>}]

Block == [set |-> TRUE]
OptionalBlock == {<<>>, <<Block>>}

WorkloadNetworkBlocks == [vsphere : OptionalBlock, nsx : OptionalBlock, nsx_vpc : OptionalBlock]
EdgeBlocks ==
  [foundation : OptionalBlock, haproxy : OptionalBlock, nsx : OptionalBlock,
   nsx_advanced : OptionalBlock]

DefaultBacking == [network |-> "network-1", segments |-> <<>>]
DefaultWorkloadNetwork == [vsphere |-> <<Block>>, nsx |-> <<>>, nsx_vpc |-> <<>>]
DefaultEdge == [foundation |-> <<Block>>, haproxy |-> <<>>, nsx |-> <<>>, nsx_advanced |-> <<>>]

SupervisorData(cluster, zones, backing, proxy, wlNetwork, edge) ==
  [id |-> "", name |-> "supervisor", cluster |-> cluster, zones |-> zones,
   control_plane_network |-> [backing |-> backing, proxy |-> proxy],
   workloads_network |-> wlNetwork, workloads_edge |-> edge]

ClusterValues == {"", "domain-c1"}
ZonesValues == {<<>>, <<"zone-1", "zone-2">>}

\* Each configuration varies one part of the resource and keeps the others
\* at a valid default.
SupervisorConfigs ==
  {SupervisorData(c, z, DefaultBacking, <<>>, DefaultWorkloadNetwork, DefaultEdge) :
      c \in ClusterValues, z \in ZonesValues}
  \cup {SupervisorData("domain-c1", <<>>, b, <<>>, DefaultWorkloadNetwork, DefaultEdge) :
      b \in BackingBlocks}
  \cup {SupervisorData("domain-c1", <<>>, DefaultBacking, <<p>>, DefaultWorkloadNetwork, DefaultEdge) :
      p \in ProxyBlocks}
  \cup {SupervisorData("", <<"zone-1", "zone-2">>, DefaultBacking, <<>>, w, DefaultEdge) :
      w \in WorkloadNetworkBlocks}
  \cup {SupervisorData("domain-c1", <<>>, DefaultBacking, <<>>, DefaultWorkloadNetwork, e) :
      e \in EdgeBlocks}

\* the attributes of a configuration that are set
SetAttributes(rd) ==
  (IF rd.cluster # "" THEN {"cluster"} ELSE {}) \cup
  (IF Len(rd.zones) > 0 THEN {"zones"} ELSE {})

\* Terraform starts the create of a vsphere_supervisor_v2.  The value of a
\* set attribute may come from a resource that does not exist yet and is
\* then unknown until the apply.
BeginSupervisorV2Create ==
  /\ Idle
  /\ \E rd \in SupervisorConfigs : \E u \in SUBSET SetAttributes(rd) :
       /\ d' = rd
       /\ unknown' = u
  /\ op' = "resourceVsphereSupervisorV2Create"
  /\ pc' = "validate"
  /\ UNCHANGED <<ret, calls, errs, loopVars, remote, loc>>

\* the schema of resourceVsphereSupervisorV2: cluster and zones conflict
ValidateSupervisorV2 ==
  /\ op = "resourceVsphereSupervisorV2Create" /\ pc \in {"validate", "apply"}
  /\ IF ConflictsWith(d.cluster # "", "cluster", Len(d.zones) > 0, "zones")
     THEN Return("\"cluster\": conflicts with zones")
     ELSE pc' = (IF pc = "validate" THEN "apply" ELSE "create") /\ UNCHANGED ret
  /\ unknown' = {}
  /\ UNCHANGED <<op, d, calls, errs, loopVars, remote, loc>>

SupervisorIds == {"supervisor-1"}

\* EnableSupervisorMultiZone / EnableSupervisorSingleZone: the error of the
\* build, or else the remote call to issue
EnableCall(rd, multiZone) ==
  LET cp == buildControlPlane(rd)
      wld == buildWorkloads(rd)
  IN  IF cp.err # "" THEN [err |-> cp.err, call |-> Nil]
      ELSE IF wld.err # "" THEN [err |-> wld.err, call |-> Nil]
      ELSE IF multiZone
      THEN [err |-> "",
            call |-> Some(Call("EnableOnZones",
                       [Name |-> rd.name, Zones |-> rd.zones,
                        ControlPlane |-> cp.value, Workloads |-> wld.value]))]
      ELSE [err |-> "",
            call |-> Some(Call("EnableOnComputeCluster",
                       [Name |-> rd.name, Cluster |-> rd.cluster,
                        ControlPlane |-> cp.value, Workloads |-> wld.value]))]

\* a variant of EnablePath that takes the single-zone path for zones too
EnablePathByCluster(rd) ==
  IF rd.cluster # "" THEN "single"
  ELSE IF Len(rd.zones) > 0 THEN "single"
  ELSE "none"

\* which enable path resourceVsphereSupervisorV2Create takes
EnablePath(rd) ==
  IF Len(rd.zones) > 0 THEN "multi"
  ELSE IF rd.cluster # "" THEN "single"
  ELSE "none"

\* resourceVsphereSupervisorV2Create up to the call of WaitForSupervisorEnable
resourceVsphereSupervisorV2Create ==
  /\ op = "resourceVsphereSupervisorV2Create" /\ pc = "create"
  /\ LET path == EnablePath(d)
         enable == EnableCall(d, path = "multi")
     IN  IF path = "none"
         THEN /\ Return("either 'zones' or 'cluster' must be specified")
              /\ UNCHANGED <<d, calls, errs>>
         ELSE IF enable.err # ""
         THEN /\ Return(enable.err)
              /\ UNCHANGED <<d, calls, errs>>
         ELSE /\ calls' = Append(calls, enable.call[1])
              /\ \E res \in {ApiErr} \cup SupervisorIds :
                   IF res = ApiErr
                   THEN /\ errs' = Append(errs, enable.call[1].api)
                        /\ Return(FromErr(enable.call[1].api))
                        /\ UNCHANGED d
                   ELSE /\ d' = [d EXCEPT !.id = res]
                        /\ pc' = "WaitForSupervisorEnable"
                        /\ UNCHANGED <<ret, errs>>
  /\ UNCHANGED <<op, unknown, loopVars, remote, loc>>


----------------------------------------------------------------------------
(* The status polling loops: for { select { case <-ctx.Done(): ...        *)
(*                                           case <-ticker.C: ... } }      *)

WaitPcs == {"WaitForSupervisorEnable", "WaitForSupervisorDisable", "waitForNamespaceCreation"}

\* a variant of TickerSeconds in which every loop has the namespace period
TickerSecondsOfNamespace(p) == NamespaceTickerSeconds

\* the period of the ticker of the loop at position p
TickerSeconds(p) ==
  IF p = "waitForNamespaceCreation" THEN NamespaceTickerSeconds ELSE SupervisorTickerSeconds

\* The deadline the loop at position p puts on the context it selects on.
\* The supervisor loops select on the context of the operation, which
\* Terraform closes when the operation's timeout (60 minutes for create)
\* expires or the run is interrupted: for them the moment is CtxCancel's.
Deadline(p) ==
  IF p = "waitForNamespaceCreation" THEN Some(NamespaceTimeoutSeconds) ELSE Nil

\* Time passes until the ticker of the running loop fires.  A loop that
\* found ctx.Done() closed runs on at once, so time passes for it only if
\* it keeps iterating.
TickerFires ==
  /\ pc \in WaitPcs
  /\ ~tickPending
  /\ polls < MaxPolls
  /\ ~ctxDone \/ spins > 0
  /\ now' = now + TickerSeconds(pc)
  /\ tickPending' = TRUE
  /\ ctxDone' = (ctxDone \/ (~IsNil(Deadline(pc)) /\ now' >= Deadline(pc)[1]))
  /\ UNCHANGED <<op, pc, d, unknown, ret, calls, errs, failureCount, observed, spins,
                 remote, loc>>

\* The context of the running loop is closed: the timeout of the operation
\* has expired or Terraform was interrupted.
CtxCancel ==
  /\ pc \in WaitPcs
  /\ ~ctxDone
  /\ ctxDone' = TRUE
  /\ UNCHANGED <<op, pc, d, unknown, ret, calls, errs, failureCount, observed, now,
                 tickPending, spins, remote, loc>>

\* a poll reported res: what the polls have shown
Observe(res) ==
  /\ info' = res
  /\ polls' = polls + 1
  /\ consecutiveErrors' = IF res = ErrorConfigStatus THEN consecutiveErrors + 1 ELSE 0
  /\ errorsSinceConfiguring' =
       IF res = ErrorConfigStatus THEN errorsSinceConfiguring + 1
       ELSE IF res = ConfiguringConfigStatus THEN 0
       ELSE errorsSinceConfiguring

SummaryResults == {ApiErr} \cup ConfigStatuses

\* what GetSupervisorSummary(ctx, ...) may give: a request made with a closed
\* context fails
SupervisorSummaryResults == IF ctxDone THEN {ApiErr} ELSE SummaryResults

\* a variant of GivesUp that gives up one ERROR poll earlier
GivesUpOnePollEarlier(fc) == fc > 3

\* WaitForSupervisorEnable gives up at an ERROR poll
GivesUp(fc) == fc > 4

\* The ticker case of WaitForSupervisorEnable when GetSupervisorSummary gave
\* res and the counter is fc: the value returned ("none": the loop goes
\* round again) and the new counter.
EnablePoll(res, fc) ==
  IF res = ApiErr THEN [ret |-> "could not find supervisor", failureCount |-> fc]
  ELSE IF res = RunningConfigStatus THEN [ret |-> "ok", failureCount |-> fc]
  ELSE IF res = ErrorConfigStatus
  THEN IF GivesUp(fc)
       THEN [ret |-> "could not enable supervisor", failureCount |-> fc]
       ELSE [ret |-> "none", failureCount |-> fc + 1]
  ELSE IF res = ConfiguringConfigStatus THEN [ret |-> "none", failureCount |-> 0]
  ELSE [ret |-> "none", failureCount |-> fc]

\* WaitForSupervisorEnable, case <-ctx.Done(): the case is empty, the loop
\* goes round again
WaitForSupervisorEnableCtxDone ==
  /\ pc = "WaitForSupervisorEnable"
  /\ ctxDone
  /\ spins < MaxSpins
  /\ spins' = spins + 1
  /\ UNCHANGED <<op, pc, d, unknown, ret, calls, errs, failureCount, observed, now,
                 ctxDone, tickPending, remote, loc>>

\* WaitForSupervisorEnable, case <-ticker.C
WaitForSupervisorEnableTick ==
  /\ pc = "WaitForSupervisorEnable"
  /\ tickPending
  /\ tickPending' = FALSE
  /\ calls' = Append(calls, Call("GetSupervisorSummary", d.id))
  /\ \E res \in SupervisorSummaryResults :
       LET out == EnablePoll(res, failureCount)
       IN  /\ Observe(res)
           /\ errs' = IF res = ApiErr THEN Append(errs, "GetSupervisorSummary") ELSE errs
           /\ failureCount' = out.failureCount
           /\ IF out.ret = "none" THEN UNCHANGED <<pc, ret>> ELSE Return(out.ret)
  /\ UNCHANGED <<op, d, unknown, now, ctxDone, spins, remote, loc>>


\* Terraform starts operation o of a resource whose data is rd
Begin(o, first, rd) ==
  /\ Idle
  /\ op' = o
  /\ pc' = first
  /\ d' = rd
  /\ UNCHANGED <<unknown, ret, calls, errs, loopVars, remote, loc>>

\* remote call c is issued and succeeds (ok) or returns an error
IssueCall(c, ok) ==
  /\ calls' = Append(calls, c)
  /\ errs' = IF ok THEN errs ELSE Append(errs, c.api)

Issue(api, arg, ok) == IssueCall(Call(api, arg), ok)

----------------------------------------------------------------------------
(* vsphere_supervisor_v2: read and delete                                 *)

BeginSupervisorV2Read ==
  \E id \in SupervisorIds : Begin("resourceVsphereSupervisorV2Read", "GetSupervisorSummary", [id |-> id])

\* resourceVsphereSupervisorV2Read
resourceVsphereSupervisorV2Read ==
  /\ op = "resourceVsphereSupervisorV2Read" /\ pc = "GetSupervisorSummary"
  /\ \E ok \in BOOLEAN :
       /\ Issue("GetSupervisorSummary", d.id, ok)
       /\ Return(IF ok THEN "ok" ELSE FromErr("GetSupervisorSummary"))
  /\ UNCHANGED <<op, d, unknown, loopVars, remote, loc>>

\* Terraform deletes a supervisor that is on the platform
BeginSupervisorV2Delete ==
  /\ Idle
  /\ \E id \in SupervisorIds :
       /\ d' = [id |-> id]
       /\ remote' = [supervisors |-> {id}]
  /\ op' = "resourceVsphereSupervisorV2Delete"
  /\ pc' = "GetSupervisorTopology"
  /\ UNCHANGED <<unknown, ret, calls, errs, loopVars, loc>>

\* the topologies GetSupervisorTopology may report: per zone, its clusters
Topologies ==
  {<<>>,
   <<[Clusters |-> <<>>]>>,
   <<[Clusters |-> <<"domain-c1">>]>>,
   <<[Clusters |-> <<>>], [Clusters |-> <<"domain-c2", "domain-c3">>]>>}

\* getClusterID: the first cluster of the first zone that has one, or ""
getClusterID(topology) ==
  LET withCluster == {i \in 1..Len(topology) : Len(topology[i].Clusters) > 0}
  IN  IF withCluster = {} THEN ""
      ELSE LET first == CHOOSE i \in withCluster : \A j \in withCluster : i <= j
           IN  topology[first].Clusters[1]

\* resourceVsphereSupervisorV2Delete: GetSupervisorTopology and getClusterID
SupervisorV2DeleteGetTopology ==
  /\ op = "resourceVsphereSupervisorV2Delete" /\ pc = "GetSupervisorTopology"
  /\ \E ok \in BOOLEAN : \E topology \in Topologies :
       /\ Issue("GetSupervisorTopology", d.id, ok)
       /\ IF ~ok THEN Return(FromErr("GetSupervisorTopology")) /\ UNCHANGED loc
          ELSE IF getClusterID(topology) = ""
          THEN Return("no clusters found for supervisor") /\ UNCHANGED loc
          ELSE /\ loc' = [id |-> getClusterID(topology)]
               /\ pc' = "DisableCluster"
               /\ UNCHANGED ret
  /\ UNCHANGED <<op, d, unknown, loopVars, remote>>

\* resourceVsphereSupervisorV2Delete: DisableCluster, then WaitForSupervisorDisable
SupervisorV2DeleteDisableCluster ==
  /\ op = "resourceVsphereSupervisorV2Delete" /\ pc = "DisableCluster"
  /\ \E ok \in BOOLEAN :
       /\ Issue("DisableCluster", loc.id, ok)
       /\ IF ok THEN pc' = "WaitForSupervisorDisable" /\ UNCHANGED ret
          ELSE Return(FromErr("DisableCluster"))
  /\ UNCHANGED <<op, d, unknown, loopVars, remote, loc>>

\* The ticker case of WaitForSupervisorDisable when GetSupervisorSummary gave
\* res: the value returned ("none": the loop goes round again).
DisablePoll(res) ==
  IF res = ApiErr THEN "ok"
  ELSE IF res = ErrorConfigStatus THEN "could not disable supervisor"
  ELSE "none"

\* WaitForSupervisorDisable, case <-ctx.Done(): the case is empty, the loop
\* goes round again
WaitForSupervisorDisableCtxDone ==
  /\ pc = "WaitForSupervisorDisable"
  /\ ctxDone
  /\ spins < MaxSpins
  /\ spins' = spins + 1
  /\ UNCHANGED <<op, pc, d, unknown, ret, calls, errs, failureCount, observed, now,
                 ctxDone, tickPending, remote, loc>>

\* what GetSupervisorSummary(ctx, id) may give when the supervisors on the
\* platform are present: a supervisor that is not there is not found
SupervisorSummaryOf(id, present) ==
  IF id \in present THEN SupervisorSummaryResults ELSE {ApiErr}

\* WaitForSupervisorDisable, case <-ticker.C.  Since the last poll the
\* platform may have finished removing the supervisor.
WaitForSupervisorDisableTick ==
  /\ pc = "WaitForSupervisorDisable"
  /\ tickPending
  /\ tickPending' = FALSE
  /\ \E removed \in BOOLEAN :
       /\ remote' = IF removed THEN [remote EXCEPT !.supervisors = @ \ {d.id}] ELSE remote
       /\ \E res \in SupervisorSummaryOf(d.id, remote'.supervisors) :
            /\ Issue("GetSupervisorSummary", d.id, res # ApiErr)
            /\ Observe(res)
            /\ IF DisablePoll(res) = "none" THEN UNCHANGED <<pc, ret>>
               ELSE Return(DisablePoll(res))
  /\ UNCHANGED <<op, d, unknown, failureCount, now, ctxDone, spins, loc>>

----------------------------------------------------------------------------
(* vsphere_namespace                                                       *)

NamespaceData == [id |-> "", name |-> "namespace-1", supervisor |-> "supervisor-1"]

BeginNamespaceCreate ==
  Begin("resourceVSphereNamespaceCreate", "CreateNamespaceV2", NamespaceData)

\* resourceVSphereNamespaceCreate: CreateNamespaceV2, then waitForNamespaceCreation
NamespaceCreateCreateNamespaceV2 ==
  /\ op = "resourceVSphereNamespaceCreate" /\ pc = "CreateNamespaceV2"
  /\ \E ok \in BOOLEAN :
       /\ Issue("CreateNamespaceV2", [Namespace |-> d.name, Supervisor |-> d.supervisor], ok)
       /\ IF ok THEN pc' = "waitForNamespaceCreation" /\ UNCHANGED ret
          ELSE Return(FromErr("CreateNamespaceV2"))
  /\ UNCHANGED <<op, d, unknown, loopVars, remote, loc>>

\* waitForNamespaceCreation, case <-tickerCtx.Done()
waitForNamespaceCreationCtxDone ==
  /\ pc = "waitForNamespaceCreation"
  /\ ctxDone
  /\ Return("failed to create namespace")
  /\ UNCHANGED <<op, d, unknown, calls, errs, loopVars, remote, loc>>

\* The ticker case of waitForNamespaceCreation when GetNamespaceV2 gave res
NamespacePoll(res) ==
  IF res = ApiErr THEN FromErr("GetNamespaceV2")
  ELSE IF res = "RUNNING" THEN "ok"
  ELSE "none"

\* waitForNamespaceCreation, case <-ticker.C; when it returns nil the create
\* goes on to resourceVSphereNamespaceRead
waitForNamespaceCreationTick ==
  /\ pc = "waitForNamespaceCreation"
  /\ tickPending
  /\ tickPending' = FALSE
  /\ \E res \in SummaryResults :
       /\ Issue("GetNamespaceV2", d.name, res # ApiErr)
       /\ Observe(res)
       /\ CASE NamespacePoll(res) = "none" -> UNCHANGED <<pc, ret>>
            [] NamespacePoll(res) = "ok" -> pc' = "resourceVSphereNamespaceRead" /\ UNCHANGED ret
            [] OTHER -> Return(NamespacePoll(res))
  /\ UNCHANGED <<op, d, unknown, failureCount, now, ctxDone, spins, remote, loc>>

BeginNamespaceRead ==
  Begin("resourceVSphereNamespaceRead", "resourceVSphereNamespaceRead", NamespaceData)

\* resourceVSphereNamespaceRead, also the last step of the create
resourceVSphereNamespaceRead ==
  /\ op \in {"resourceVSphereNamespaceCreate", "resourceVSphereNamespaceRead"}
  /\ pc = "resourceVSphereNamespaceRead"
  /\ \E ok \in BOOLEAN :
       /\ Issue("GetNamespaceV2", d.name, ok)
       /\ IF ok THEN d' = [d EXCEPT !.id = d.name] /\ Return("ok")
          ELSE UNCHANGED d /\ Return(FromErr("GetNamespaceV2"))
  /\ UNCHANGED <<op, unknown, loopVars, remote, loc>>

BeginNamespaceUpdate ==
  Begin("resourceVSphereNamespaceUpdate", "UpdateNamespace", [NamespaceData EXCEPT !.id = "namespace-1"])

\* resourceVSphereNamespaceUpdate
resourceVSphereNamespaceUpdate ==
  /\ op = "resourceVSphereNamespaceUpdate" /\ pc = "UpdateNamespace"
  /\ \E ok \in BOOLEAN :
       /\ Issue("UpdateNamespace", d.name, ok)
       /\ Return(IF ok THEN "ok" ELSE FromErr("UpdateNamespace"))
  /\ UNCHANGED <<op, d, unknown, loopVars, remote, loc>>

BeginNamespaceDelete ==
  Begin("resourceVSphereNamespaceDelete", "DeleteNamespace", [NamespaceData EXCEPT !.id = "namespace-1"])

\* resourceVSphereNamespaceDelete
resourceVSphereNamespaceDelete ==
  /\ op = "resourceVSphereNamespaceDelete" /\ pc = "DeleteNamespace"
  /\ \E ok \in BOOLEAN :
       /\ Issue("DeleteNamespace", d.id, ok)
       /\ Return(IF ok THEN "ok" ELSE FromErr("DeleteNamespace"))
  /\ UNCHANGED <<op, d, unknown, loopVars, remote, loc>>

----------------------------------------------------------------------------
(* Operations that issue a fixed list of remote calls one after another   *)

\* a variant of RunCall in which the error of a failing call is dropped
RunCallDroppingError(c, ok, rest, effect, before, after) ==
  /\ IssueCall(c, ok)
  /\ IF ok
     THEN /\ remote' = effect
          /\ d' = after
          /\ loc' = [loc EXCEPT !.todo = rest]
          /\ IF rest = <<>> THEN Return("ok") ELSE UNCHANGED <<pc, ret>>
     ELSE /\ Return("ok")
          /\ d' = before
          /\ UNCHANGED <<remote, loc>>

\* The operation has its remaining remote calls in loc.todo.  It issues the
\* first of them: if the call succeeds, its effect on the platform takes
\* place and the operation goes on with the calls in rest, returning nil
\* when none is left; if the call fails, the operation returns the error.
\* before(d) is the resource data when the call is issued, after(d) when it
\* has succeeded.
RunCall(c, ok, rest, effect, before, after) ==
  /\ IssueCall(c, ok)
  /\ IF ok
     THEN /\ remote' = effect
          /\ d' = after
          /\ loc' = [loc EXCEPT !.todo = rest]
          /\ IF rest = <<>> THEN Return("ok") ELSE UNCHANGED <<pc, ret>>
     ELSE /\ Return(FromErr(c.api))
          /\ d' = before
          /\ UNCHANGED <<remote, loc>>

\* all orders in which the elements of the finite set S can be listed
ListsOf(S) ==
  {s \in [1..Cardinality(S) -> S] : \A x \in S : \E i \in 1..Cardinality(S) : s[i] = x}

\* the calls of fn, one per element of list, in order
RECURSIVE ForEach(_, _, _)
ForEach(api, zoneName, list) ==
  IF list = <<>> THEN <<>>
  ELSE <<Call(api, [zone |-> zoneName, cluster |-> Head(list)])>>
       \o ForEach(api, zoneName, Tail(list))

----------------------------------------------------------------------------
(* vsphere_zone                                                            *)

ZoneClusters == {"domain-c1", "domain-c2"}
ZoneName == "zone-1"

ZoneData(ids) == [id |-> "", name |-> ZoneName, description |-> "a zone", cluster_ids |-> ids]

\* the platform after a zone call has succeeded
ZoneEffect(c, r) ==
  CASE c.api = "CreateZone" -> [r EXCEPT !.zones = @ \cup {c.arg.zone}]
    [] c.api = "DeleteZone" -> [r EXCEPT !.zones = @ \ {c.arg.zone}, !.associations = {}]
    [] c.api = "AddAssociations" -> [r EXCEPT !.associations = @ \cup {c.arg.cluster}]
    [] c.api = "RemoveAssociations" -> [r EXCEPT !.associations = @ \ {c.arg.cluster}]
    [] OTHER -> r

\* VSphereZoneRead: d.SetId(zoneName), then GetZone and GetAssociations
ZoneReadCalls(rd) ==
  <<Call("GetZone", [zone |-> rd.name]), Call("GetAssociations", [zone |-> rd.name])>>

\* the resource data when VSphereZoneRead issues call c
ZoneDataBefore(c, rd) ==
  IF c.api \in {"GetZone", "GetAssociations"} THEN [rd EXCEPT !.id = rd.name] ELSE rd

\* the resource data after call c of VSphereZoneRead has succeeded
ZoneDataAfter(c, rd, r) ==
  IF c.api = "GetAssociations"
  THEN [rd EXCEPT !.id = rd.name, !.cluster_ids = r.associations]
  ELSE ZoneDataBefore(c, rd)

\* resourceVSphereZoneCreate: CreateZone, AddAssociations for every cluster
\* of cluster_ids in the order order, then the read
ZoneCreateCalls(rd, order) ==
  <<Call("CreateZone", [zone |-> rd.name])>>
  \o ForEach("AddAssociations", rd.name, order)
  \o ZoneReadCalls(rd)

BeginZoneCreate ==
  /\ Idle
  /\ \E ids \in SUBSET ZoneClusters : \E order \in ListsOf(ids) :
       /\ d' = ZoneData(ids)
       /\ remote' = [zones |-> {}, associations |-> {}]
       /\ loc' = [todo |-> ZoneCreateCalls(ZoneData(ids), order), before |-> remote']
  /\ op' = "resourceVSphereZoneCreate"
  /\ pc' = "run"
  /\ UNCHANGED <<unknown, ret, calls, errs, loopVars>>

\* resourceVSphereZoneCreate: the next remote call.  When AddAssociations
\* fails the zone is destroyed, the result of DeleteZone is dropped and the
\* error of AddAssociations is returned.
resourceVSphereZoneCreate ==
  /\ op = "resourceVSphereZoneCreate" /\ pc = "run"
  /\ LET c == Head(loc.todo)
         cleanup == Call("DeleteZone", [zone |-> d.name])
     IN  \E ok \in BOOLEAN :
           IF ~ok /\ c.api = "AddAssociations"
           THEN \E cleanupOk \in BOOLEAN :
                  /\ calls' = calls \o <<c, cleanup>>
                  /\ errs' = errs \o <<c.api>> \o (IF cleanupOk THEN <<>> ELSE <<cleanup.api>>)
                  /\ remote' = IF cleanupOk THEN ZoneEffect(cleanup, remote) ELSE remote
                  /\ Return(FromErr(c.api))
                  /\ UNCHANGED <<d, loc>>
           ELSE RunCall(c, ok, Tail(loc.todo), ZoneEffect(c, remote),
                        ZoneDataBefore(c, d), ZoneDataAfter(c, d, remote))
  /\ UNCHANGED <<op, unknown, loopVars>>

\* resourceVSphereZoneUpdate: RemoveAssociations for the clusters of the old
\* set that are not in the new one, AddAssociations for the clusters of the
\* new set that are not in the old one, then the read
ZoneUpdateCalls(rd, toRemove, toAdd) ==
  ForEach("RemoveAssociations", rd.name, toRemove)
  \o ForEach("AddAssociations", rd.name, toAdd)
  \o ZoneReadCalls(rd)

BeginZoneUpdate ==
  /\ Idle
  /\ \E oldSet \in SUBSET ZoneClusters : \E newSet \in SUBSET ZoneClusters :
       LET intersection == oldSet \cap newSet
       IN  \E toRemove \in ListsOf(oldSet \ intersection) :
           \E toAdd \in ListsOf(newSet \ intersection) :
             /\ oldSet # newSet
             /\ d' = [ZoneData(newSet) EXCEPT !.id = ZoneName]
             /\ remote' = [zones |-> {ZoneName}, associations |-> oldSet]
             /\ loc' = [todo |-> ZoneUpdateCalls(ZoneData(newSet), toRemove, toAdd),
                        before |-> remote']
  /\ op' = "resourceVSphereZoneUpdate"
  /\ pc' = "run"
  /\ UNCHANGED <<unknown, ret, calls, errs, loopVars>>

\* resourceVSphereZoneUpdate: the next remote call
resourceVSphereZoneUpdate ==
  /\ op = "resourceVSphereZoneUpdate" /\ pc = "run"
  /\ \E ok \in BOOLEAN :
       RunCall(Head(loc.todo), ok, Tail(loc.todo), ZoneEffect(Head(loc.todo), remote),
               ZoneDataBefore(Head(loc.todo), d), ZoneDataAfter(Head(loc.todo), d, remote))
  /\ UNCHANGED <<op, unknown, loopVars>>

BeginZoneRead ==
  /\ Idle
  /\ \E ids \in SUBSET ZoneClusters : \E assoc \in SUBSET ZoneClusters :
       /\ d' = [ZoneData(ids) EXCEPT !.id = ZoneName]
       /\ remote' = [zones |-> {ZoneName}, associations |-> assoc]
       /\ loc' = [todo |-> ZoneReadCalls(ZoneData(ids)), before |-> remote']
  /\ op' = "resourceVSphereZoneRead"
  /\ pc' = "run"
  /\ UNCHANGED <<unknown, ret, calls, errs, loopVars>>

\* resourceVSphereZoneRead: the next remote call
resourceVSphereZoneRead ==
  /\ op = "resourceVSphereZoneRead" /\ pc = "run"
  /\ \E ok \in BOOLEAN :
       RunCall(Head(loc.todo), ok, Tail(loc.todo), remote,
               ZoneDataBefore(Head(loc.todo), d), ZoneDataAfter(Head(loc.todo), d, remote))
  /\ UNCHANGED <<op, unknown, loopVars>>

BeginZoneDelete ==
  /\ Idle
  /\ \E assoc \in SUBSET ZoneClusters :
       /\ d' = [ZoneData(assoc) EXCEPT !.id = ZoneName]
       /\ remote' = [zones |-> {ZoneName}, associations |-> assoc]
       /\ loc' = [todo |-> <<Call("DeleteZone", [zone |-> ZoneName])>>, before |-> remote']
  /\ op' = "resourceVSphereZoneDelete"
  /\ pc' = "run"
  /\ UNCHANGED <<unknown, ret, calls, errs, loopVars>>

\* resourceVSphereZoneDelete
resourceVSphereZoneDelete ==
  /\ op = "resourceVSphereZoneDelete" /\ pc = "run"
  /\ \E ok \in BOOLEAN :
       RunCall(Head(loc.todo), ok, Tail(loc.todo), ZoneEffect(Head(loc.todo), remote), d, d)
  /\ UNCHANGED <<op, unknown, loopVars>>

----------------------------------------------------------------------------
(* vsphere_compute_cluster: create, update and read                       *)

ClusterHosts == {"host-1", "host-2"}
ClusterId == "domain-c1"

\* a remote call made by step (a function of the resource)
StepCall(step, api, arg) == [api |-> api, arg |-> arg, step |-> step]

\* one call api(h) of step for every host h of list, in order
RECURSIVE PerHost(_, _, _)
PerHost(step, api, list) ==
  IF list = <<>> THEN <<>>
  ELSE <<StepCall(step, api, Head(list))>> \o PerHost(step, api, Tail(list))

\* a variant of ApplyCreateCalls that creates the cluster with its
\* configuration
ApplyCreateCallsWithConfiguration(rd) ==
  LET step == "resourceVSphereComputeClusterApplyCreate"
  IN  <<StepCall(step, "datacenterFromID", rd.datacenter_id),
        StepCall(step, "folder.FromPath", rd.folder),
        StepCall(step, "clustercomputeresource.Create", rd.name),
        StepCall(step, "Reconfigure", rd.name)>>

\* resourceVSphereComputeClusterApplyCreate: locate the datacenter and the
\* folder, create the cluster with an empty configuration
ApplyCreateCalls(rd) ==
  LET step == "resourceVSphereComputeClusterApplyCreate"
  IN  <<StepCall(step, "datacenterFromID", rd.datacenter_id),
        StepCall(step, "folder.FromPath", rd.folder),
        StepCall(step, "clustercomputeresource.Create", rd.name)>>

\* resourceVSphereComputeClusterApplyTags: nothing to do without a tags client
ApplyTagsCalls(rd) ==
  IF rd.tags
  THEN <<StepCall("resourceVSphereComputeClusterApplyTags", "processTagDiff", rd.name)>>
  ELSE <<>>

\* resourceVSphereComputeClusterApplyCustomAttributes: nothing to do without
\* an attribute processor
ApplyCustomAttributesCalls(rd) ==
  IF rd.custom_attributes
  THEN <<StepCall("resourceVSphereComputeClusterApplyCustomAttributes", "ProcessDiff", rd.name)>>
  ELSE <<>>

\* the hosts newly listed, in the order the set lists them: n.Difference(o)
\* the hosts no longer listed: o.Difference(n)
\* after MoveHostsInto every new host is looked at and taken out of
\* maintenance mode if it is in it
RECURSIVE ExitMaintenanceCalls(_, _)
ExitMaintenanceCalls(list, inMaintenance) ==
  LET step == "resourceVSphereComputeClusterProcessHostUpdate"
  IN  IF list = <<>> THEN <<>>
      ELSE <<StepCall(step, "hostsystem.Properties", Head(list))>>
           \o (IF Head(list) \in inMaintenance
               THEN <<StepCall(step, "hostsystem.ExitMaintenanceMode", Head(list))>>
               ELSE <<>>)
           \o ExitMaintenanceCalls(Tail(list), inMaintenance)

\* a variant of ProcessHostUpdateCalls that removes the old hosts first
ProcessHostUpdateCallsRemovingFirst(newHosts, oldHosts, inMaintenance) ==
  LET step == "resourceVSphereComputeClusterProcessHostUpdate"
  IN  PerHost(step, "hostsystem.FromID", newHosts)
      \o PerHost(step, "hostsystem.FromID", oldHosts)
      \o <<StepCall(step, "MoveHostsOutOf", oldHosts)>>
      \o (IF Len(newHosts) > 0
          THEN <<StepCall(step, "MoveHostsInto", newHosts)>>
               \o ExitMaintenanceCalls(newHosts, inMaintenance)
          ELSE <<>>)

\* resourceVSphereComputeClusterProcessHostUpdate
ProcessHostUpdateCalls(newHosts, oldHosts, inMaintenance) ==
  LET step == "resourceVSphereComputeClusterProcessHostUpdate"
  IN  PerHost(step, "hostsystem.FromID", newHosts)
      \o PerHost(step, "hostsystem.FromID", oldHosts)
      \o (IF Len(newHosts) > 0
          THEN <<StepCall(step, "MoveHostsInto", newHosts)>>
               \o ExitMaintenanceCalls(newHosts, inMaintenance)
          ELSE <<>>)
      \o <<StepCall(step, "MoveHostsOutOf", oldHosts)>>

\* resourceVSphereComputeClusterApplyClusterConfiguration: a no-op if no
\* configuration attribute has changed
ApplyClusterConfigurationCalls(rd) ==
  LET step == "resourceVSphereComputeClusterApplyClusterConfiguration"
  IN  IF rd.config_change
      THEN <<StepCall(step, "ApplyVsanConfig", rd.name), StepCall(step, "Reconfigure", rd.name)>>
      ELSE <<>>

\* resourceVsphereComputeClusterEnableSoftwareManagement
EnableSoftwareManagementCalls(rd) ==
  LET step == "resourceVSphereComputeClusterApplyHostImage"
  IN  <<StepCall(step, "CreateSoftwareDraft", "enable"),
        StepCall(step, "SetSoftwareDraftBaseImage", "enable"),
        StepCall(step, "CommitSoftwareDraft", "enable"),
        StepCall(step, "WaitForCompletion", "enable-commit"),
        StepCall(step, "EnableSoftwareManagement", "enable"),
        StepCall(step, "WaitForCompletion", "enable")>>

\* resourceVSphereComputeClusterApplyHostImage: a no-op if host_image has
\* not changed; vlcmEnabled is what GetSoftwareManagement reports
ApplyHostImageCalls(rd, vlcmEnabled) ==
  LET step == "resourceVSphereComputeClusterApplyHostImage"
  IN  IF rd.host_image_change
      THEN <<StepCall(step, "GetSoftwareManagement", rd.name)>>
           \o (IF vlcmEnabled THEN <<>> ELSE EnableSoftwareManagementCalls(rd))
           \o <<StepCall(step, "CreateSoftwareDraft", "image"),
                StepCall(step, "SetSoftwareDraftBaseImage", "image"),
                StepCall(step, "UpdateSoftwareDraftComponents", "image"),
                StepCall(step, "CommitSoftwareDraft", "image"),
                StepCall(step, "WaitForCompletion", "image")>>
      ELSE <<>>

\* resourceVSphereComputeClusterRead
ClusterReadCalls(rd) ==
  LET step == "resourceVSphereComputeClusterRead"
  IN  <<StepCall(step, "clustercomputeresource.FromID", "read"),
        StepCall(step, "getDatacenter", rd.name),
        StepCall(step, "clustercomputeresource.Properties", rd.name),
        StepCall(step, "readTagsForResource", rd.name)>>

\* a variant of ClusterCreateCalls that moves the hosts before it applies
\* the tags and the custom attributes
ClusterCreateCallsHostsFirst(rd, newHosts, oldHosts, inMaintenance, vlcmEnabled) ==
  ApplyCreateCalls(rd)
  \o ProcessHostUpdateCalls(newHosts, oldHosts, inMaintenance)
  \o ApplyTagsCalls(rd)
  \o ApplyCustomAttributesCalls(rd)
  \o ApplyClusterConfigurationCalls(rd)
  \o ApplyHostImageCalls(rd, vlcmEnabled)
  \o ClusterReadCalls(rd)

\* resourceVSphereComputeClusterCreate
ClusterCreateCalls(rd, newHosts, oldHosts, inMaintenance, vlcmEnabled) ==
  ApplyCreateCalls(rd)
  \o ApplyTagsCalls(rd)
  \o ApplyCustomAttributesCalls(rd)
  \o ProcessHostUpdateCalls(newHosts, oldHosts, inMaintenance)
  \o ApplyClusterConfigurationCalls(rd)
  \o ApplyHostImageCalls(rd, vlcmEnabled)
  \o ClusterReadCalls(rd)

\* resourceVSphereComputeClusterApplyNameChange
ApplyNameChangeCalls(rd) ==
  LET step == "resourceVSphereComputeClusterApplyNameChange"
  IN  IF rd.name_change
      THEN <<StepCall(step, "Rename", rd.name),
             StepCall(step, "clustercomputeresource.FromID", "name")>>
      ELSE <<>>

\* resourceVSphereComputeClusterApplyFolderChange
ApplyFolderChangeCalls(rd) ==
  LET step == "resourceVSphereComputeClusterApplyFolderChange"
  IN  IF rd.folder_change
      THEN <<StepCall(step, "MoveToFolder", rd.folder),
             StepCall(step, "clustercomputeresource.FromID", "folder")>>
      ELSE <<>>

\* resourceVSphereComputeClusterUpdate
ClusterUpdateCalls(rd, newHosts, oldHosts, inMaintenance, vlcmEnabled) ==
  <<StepCall("resourceVSphereComputeClusterGetCluster", "clustercomputeresource.FromID", "update")>>
  \o ApplyNameChangeCalls(rd)
  \o ApplyFolderChangeCalls(rd)
  \o ProcessHostUpdateCalls(newHosts, oldHosts, inMaintenance)
  \o ApplyClusterConfigurationCalls(rd)
  \o ApplyTagsCalls(rd)
  \o ApplyCustomAttributesCalls(rd)
  \o ApplyHostImageCalls(rd, vlcmEnabled)
  \o ClusterReadCalls(rd)

\* the elements of a list
Elements(list) == {list[i] : i \in 1..Len(list)}

\* the platform after a cluster call has succeeded
ClusterEffect(c, r) ==
  CASE c.api = "clustercomputeresource.Create" -> [r EXCEPT !.exists = TRUE]
    [] c.api = "processTagDiff" -> [r EXCEPT !.tagged = TRUE]
    [] c.api = "ProcessDiff" -> [r EXCEPT !.attributed = TRUE]
    [] c.api = "MoveHostsInto" -> [r EXCEPT !.hosts = @ \cup Elements(c.arg)]
    [] c.api = "hostsystem.ExitMaintenanceMode" -> [r EXCEPT !.maintenance = @ \ {c.arg}]
    [] c.api = "MoveHostsOutOf" -> [r EXCEPT !.hosts = @ \ Elements(c.arg)]
    [] c.api = "Rename" -> [r EXCEPT !.renamed = TRUE]
    [] c.api = "MoveToFolder" -> [r EXCEPT !.moved = TRUE]
    [] c.api = "Reconfigure" -> [r EXCEPT !.configured = TRUE]
    [] c.api = "WaitForCompletion" /\ c.arg = "enable" -> [r EXCEPT !.vlcm = TRUE]
    [] c.api = "WaitForCompletion" /\ c.arg = "image" -> [r EXCEPT !.image = TRUE]
    [] OTHER -> r

\* a variant of ClusterDataAfter that leaves the ID to the end of the create
ClusterDataAfterIdAtEnd(c, rd) ==
  IF c.api = "readTagsForResource" THEN [rd EXCEPT !.id = ClusterId] ELSE rd

\* the resource data after a cluster call has succeeded: the ID is set as
\* soon as the cluster is created
ClusterDataAfter(c, rd) ==
  IF c.api = "clustercomputeresource.Create" THEN [rd EXCEPT !.id = ClusterId] ELSE rd

ClusterData(tags, attrs, config, image, name, folder, hostManaged, hostIds) ==
  [id |-> "", name |-> "cluster-1", datacenter_id |-> "datacenter-1", folder |-> "",
   host_managed |-> hostManaged, host_system_ids |-> hostIds,
   tags |-> tags, custom_attributes |-> attrs, config_change |-> config,
   host_image_change |-> image, name_change |-> name, folder_change |-> folder]

ClusterRemote(exists, hosts, inMaintenance, vlcm) ==
  [exists |-> exists, hosts |-> hosts, maintenance |-> inMaintenance, vlcm |-> vlcm,
   tagged |-> FALSE, attributed |-> FALSE, renamed |-> FALSE, moved |-> FALSE,
   configured |-> FALSE, image |-> FALSE]

\* host_managed in a configuration: not set, or set to a value
HostManagedValues == {Nil, Some(TRUE)}

\* the attributes among host_managed and host_system_ids that a cluster
\* configuration sets
ClusterSetAttributes(hostManaged, hostIds) ==
  (IF ~IsNil(hostManaged) THEN {"host_managed"} ELSE {}) \cup
  (IF hostIds # {} THEN {"host_system_ids"} ELSE {})

\* the schema of resourceVSphereComputeCluster: host_system_ids and
\* host_managed conflict
ValidateComputeCluster ==
  /\ op \in {"resourceVSphereComputeClusterCreate", "resourceVSphereComputeClusterUpdate"}
  /\ pc \in {"validate", "apply"}
  /\ IF ConflictsWith(d.host_system_ids # {}, "host_system_ids",
                      ~IsNil(d.host_managed), "host_managed")
     THEN Return("\"host_system_ids\": conflicts with host_managed")
     ELSE pc' = (IF pc = "validate" THEN "apply" ELSE "run") /\ UNCHANGED ret
  /\ unknown' = {}
  /\ UNCHANGED <<op, d, calls, errs, loopVars, remote, loc>>

BeginClusterCreate ==
  /\ Idle
  /\ \E n \in SUBSET ClusterHosts : \E inMaintenance \in SUBSET n :
     \E newHosts \in ListsOf(n) :
     \E tags \in BOOLEAN, attrs \in BOOLEAN, config \in BOOLEAN, image \in BOOLEAN :
     \E hostManaged \in HostManagedValues :
     \E u \in SUBSET ClusterSetAttributes(hostManaged, n) :
       LET rd == ClusterData(tags, attrs, config, image, FALSE, FALSE, hostManaged, n)
       IN  /\ d' = rd
           /\ unknown' = u
           /\ remote' = ClusterRemote(FALSE, {}, inMaintenance, FALSE)
           /\ loc' = [todo |-> ClusterCreateCalls(rd, newHosts, <<>>, inMaintenance, FALSE),
                      before |-> remote']
  /\ op' = "resourceVSphereComputeClusterCreate"
  /\ pc' = "validate"
  /\ UNCHANGED <<ret, calls, errs, loopVars>>

BeginClusterUpdate ==
  /\ Idle
  /\ \E o \in SUBSET ClusterHosts : \E n \in SUBSET ClusterHosts :
     \E inMaintenance \in SUBSET (n \ o) :
     \E newHosts \in ListsOf(n \ o) : \E oldHosts \in ListsOf(o \ n) :
     \E tags \in BOOLEAN, attrs \in BOOLEAN, config \in BOOLEAN, image \in BOOLEAN,
        vlcm \in BOOLEAN, name \in BOOLEAN, folder \in BOOLEAN :
     \E hostManaged \in HostManagedValues :
     \E u \in SUBSET ClusterSetAttributes(hostManaged, n) :
       LET rd == [ClusterData(tags, attrs, config, image, name, folder, hostManaged, n)
                    EXCEPT !.id = ClusterId]
       IN  /\ d' = rd
           /\ unknown' = u
           /\ remote' = ClusterRemote(TRUE, o, inMaintenance, vlcm)
           /\ loc' = [todo |-> ClusterUpdateCalls(rd, newHosts, oldHosts, inMaintenance, vlcm),
                      before |-> remote']
  /\ op' = "resourceVSphereComputeClusterUpdate"
  /\ pc' = "validate"
  /\ UNCHANGED <<ret, calls, errs, loopVars>>

\* The next remote call of a cluster create or update.  The first call of
\* the final read tells a cluster that is not found from other errors: the
\* ID is cleared and the operation returns nil.
ClusterRun ==
  LET c == Head(loc.todo)
  IN  IF c.step = "resourceVSphereComputeClusterRead" /\ c.api = "clustercomputeresource.FromID"
      THEN \E res \in {"ok", "not found", ApiErr} :
             IF res = "not found"
             THEN /\ IssueCall(c, FALSE)
                  /\ d' = [d EXCEPT !.id = ""]
                  /\ Return("ok")
                  /\ UNCHANGED <<remote, loc>>
             ELSE RunCall(c, res = "ok", Tail(loc.todo), remote, d, d)
      ELSE \E ok \in BOOLEAN :
             RunCall(c, ok, Tail(loc.todo), ClusterEffect(c, remote), d, ClusterDataAfter(c, d))

\* resourceVSphereComputeClusterCreate
resourceVSphereComputeClusterCreate ==
  /\ op = "resourceVSphereComputeClusterCreate" /\ pc = "run"
  /\ ClusterRun
  /\ UNCHANGED <<op, unknown, loopVars>>

\* resourceVSphereComputeClusterUpdate
resourceVSphereComputeClusterUpdate ==
  /\ op = "resourceVSphereComputeClusterUpdate" /\ pc = "run"
  /\ ClusterRun
  /\ UNCHANGED <<op, unknown, loopVars>>

----------------------------------------------------------------------------
(* vsphere_configuration_profile                                           *)

\* A configuration JSON document: its "metadata" member and the rest.  The
\* empty string has neither.
Config(body, meta) == [body |-> body, meta |-> meta]
EmptyConfig == Config("", "")

\* the configuration the platform extracts from a reference host
HostConfig(host) == Config("configuration of " \o host, "from host")

ProfileHosts == {"host-1"}
ProfileCluster == "domain-c1"
ProfileSchema == "schema"
NewDraft == "draft-1"

\* configurations a user supplies
SuppliedConfigs == {Config("A", "m2"), Config("B", "m1")}
\* configurations a cluster is found with
ClusterConfigs == {Config("A", "m1"), HostConfig("host-1")}

\* configDiffSuppressFunc: both documents parse and are equal once their
\* "metadata" member is deleted
configDiffSuppressFunc(oldVal, newVal) ==
  /\ oldVal # EmptyConfig
  /\ newVal # EmptyConfig
  /\ oldVal.body = newVal.body

ProfileData(host, config) ==
  [id |-> "", cluster_id |-> ProfileCluster, reference_host_id |-> host,
   configuration |-> config, schema |-> ""]

\* the attributes of a profile configuration that are set
ProfileSetAttributes(host, config) ==
  (IF host # "" THEN {"reference_host_id"} ELSE {}) \cup
  (IF config # EmptyConfig THEN {"configuration"} ELSE {})

\* the platform: whether the cluster is managed by configuration profiles
\* (status), its configuration, the configuration imported for enablement
\* (pending), the pending drafts and the content of the draft the provider
\* creates (draft)
ProfileRemote(status, config, drafts) ==
  [status |-> status, config |-> config, pending |-> EmptyConfig, drafts |-> drafts,
   draft |-> EmptyConfig]

\* The platform after a configuration profile call has succeeded.  The
\* effect of a task takes place when the task completes.
ProfileEffect(c, r, rd) ==
  CASE c.api = "ImportFromFile" -> [r EXCEPT !.pending = c.arg]
    [] c.api = "WaitForCompletion" /\ c.arg = "ImportFromReferenceHost" ->
         [r EXCEPT !.pending = HostConfig(rd.reference_host_id)]
    [] c.api = "WaitForCompletion" /\ c.arg = "EnableClusterConfiguration" ->
         [r EXCEPT !.status = "ENABLED", !.config = r.pending]
    [] c.api = "DeleteDraft" -> [r EXCEPT !.drafts = @ \ {c.arg}]
    [] c.api = "CreateDraft" ->
         [r EXCEPT !.drafts = @ \cup {NewDraft},
                   !.draft = IF c.arg # EmptyConfig THEN c.arg ELSE r.config]
    [] c.api = "WaitForCompletion" /\ c.arg = "ImportFromHost" ->
         [r EXCEPT !.draft = HostConfig(rd.reference_host_id)]
    [] c.api = "WaitForCompletion" /\ c.arg = "ApplyDraft" ->
         [r EXCEPT !.config = r.draft, !.drafts = @ \ {NewDraft}]
    [] c.api = "DisableClusterConfiguration" ->
         [r EXCEPT !.status = "NOT_STARTED", !.config = EmptyConfig]
    [] OTHER -> r

\* ReadConfigProfile: d.SetId, then GetConfiguration and GetSchema
ReadConfigProfileCalls(rd) ==
  <<Call("GetConfiguration", rd.cluster_id), Call("GetSchema", rd.cluster_id)>>

\* the ID ReadConfigProfile sets
ProfileId(clusterID) == "config_profile_" \o clusterID

\* the resource data when ReadConfigProfile issues call c
ProfileDataBefore(c, rd) ==
  IF c.api \in {"GetConfiguration", "GetSchema"}
  THEN [rd EXCEPT !.id = ProfileId(rd.cluster_id)]
  ELSE rd

\* the resource data after call c has succeeded
ProfileDataAfter(c, rd, r) ==
  CASE c.api = "GetConfiguration" ->
         [ProfileDataBefore(c, rd) EXCEPT !.configuration = r.config]
    [] c.api = "GetSchema" -> [ProfileDataBefore(c, rd) EXCEPT !.schema = ProfileSchema]
    [] OTHER -> rd

\* a call that starts a task, and the wait for the task
Task(api, arg) == <<Call(api, arg), Call("WaitForCompletion", api)>>

\* resourceVSphereConfigurationProfileCreate refuses a configuration with
\* both sources
BothSources(rd) == rd.reference_host_id # "" /\ rd.configuration # EmptyConfig

\* resourceVSphereConfigurationProfileCreate on a cluster whose status is
\* NOT_STARTED: the calls after GetClusterConfigurationStatus
ProfileEnableCalls(rd) ==
  Task("CheckEligibility", rd.cluster_id)
  \o (IF rd.reference_host_id # ""
      THEN Task("ImportFromReferenceHost", rd.reference_host_id)
      ELSE <<Call("ImportFromFile", rd.configuration)>>)
  \o Task("ValidateConfiguration", rd.cluster_id)
  \o Task("RunPrecheck", rd.cluster_id)
  \o Task("EnableClusterConfiguration", rd.cluster_id)
  \o ReadConfigProfileCalls(rd)

\* one DeleteDraft for every pending draft of list
RECURSIVE DeleteDraftCalls(_)
DeleteDraftCalls(list) ==
  IF list = <<>> THEN <<>>
  ELSE <<Call("DeleteDraft", Head(list))>> \o DeleteDraftCalls(Tail(list))

\* a variant of ProfileUpdateCalls that never imports from the reference host
ProfileUpdateCallsWithoutImport(rd, draftsList) ==
  DeleteDraftCalls(draftsList)
  \o <<Call("CreateDraft", rd.configuration)>>
  \o Task("Precheck", NewDraft)
  \o Task("ApplyDraft", NewDraft)
  \o ReadConfigProfileCalls(rd)

\* resourceVSphereConfigurationProfileUpdate: the calls after ListDrafts has
\* reported the drafts of draftsList
ProfileUpdateCalls(rd, draftsList) ==
  DeleteDraftCalls(draftsList)
  \o <<Call("CreateDraft", rd.configuration)>>
  \o (IF rd.reference_host_id # ""
      THEN Task("ImportFromHost", rd.reference_host_id)
      ELSE <<>>)
  \o Task("Precheck", NewDraft)
  \o Task("ApplyDraft", NewDraft)
  \o ReadConfigProfileCalls(rd)

\* a variant of ProfileDeleteCalls that turns configuration profiles off
ProfileDeleteCallsDisabling(rd) == <<Call("DisableClusterConfiguration", rd.cluster_id)>>

\* resourceVSphereConfigurationProfileDelete: no call at all
ProfileDeleteCalls(rd) == <<>>

\* Terraform starts the create of a vsphere_configuration_profile.  The
\* value of a set attribute may be unknown until the apply.
BeginProfileCreate ==
  /\ Idle
  /\ \E host \in {""} \cup ProfileHosts : \E config \in {EmptyConfig} \cup SuppliedConfigs :
     \E u \in SUBSET ProfileSetAttributes(host, config) :
     \E status \in {"NOT_STARTED", "ENABLED"} : \E drafts \in SUBSET {"draft-0"} :
       /\ d' = ProfileData(host, config)
       /\ unknown' = u
       /\ remote' = IF status = "NOT_STARTED"
                    THEN ProfileRemote(status, EmptyConfig, {})
                    ELSE ProfileRemote(status, Config("A", "m1"), drafts)
       /\ loc' = [todo |-> <<>>, before |-> remote',
                  supplied |-> config, prior |-> ProfileData("", EmptyConfig)]
  /\ op' = "resourceVSphereConfigurationProfileCreate"
  /\ pc' = "validate"
  /\ UNCHANGED <<ret, calls, errs, loopVars>>

\* the schema of resourceVSphereConfigurationProfile: reference_host_id and
\* configuration conflict
ValidateConfigurationProfile ==
  /\ op \in {"resourceVSphereConfigurationProfileCreate",
             "resourceVSphereConfigurationProfileUpdate"}
  /\ pc \in {"validate", "apply"}
  /\ IF ConflictsWith(loc.supplied # EmptyConfig, "configuration",
                      d.reference_host_id # "", "reference_host_id")
     THEN Return("\"configuration\": conflicts with reference_host_id")
     ELSE pc' = (IF pc = "validate" THEN "apply"
                 ELSE IF op = "resourceVSphereConfigurationProfileCreate" THEN "create"
                 ELSE "update")
          /\ UNCHANGED ret
  /\ unknown' = {}
  /\ UNCHANGED <<op, d, calls, errs, loopVars, remote, loc>>

\* resourceVSphereConfigurationProfileCreate up to the result of
\* GetClusterConfigurationStatus: a cluster that is already managed by
\* configuration profiles is left to the update routine
resourceVSphereConfigurationProfileCreate ==
  /\ op = "resourceVSphereConfigurationProfileCreate" /\ pc = "create"
  /\ IF BothSources(d)
     THEN /\ Return("cannot specify both 'reference_host_id' and 'configuration'")
          /\ UNCHANGED <<calls, errs, loc>>
     ELSE \E ok \in BOOLEAN :
            /\ Issue("GetClusterConfigurationStatus", d.cluster_id, ok)
            /\ IF ~ok
               THEN Return(FromErr("GetClusterConfigurationStatus")) /\ UNCHANGED loc
               ELSE /\ pc' = (IF remote.status = "NOT_STARTED" THEN "run" ELSE "update")
                    /\ loc' = [loc EXCEPT !.todo = ProfileEnableCalls(d)]
                    /\ UNCHANGED ret
  /\ UNCHANGED <<op, d, unknown, loopVars, remote>>

\* the next remote call of a configuration profile operation
ProfileRun ==
  /\ pc = "run"
  /\ \E ok \in BOOLEAN :
       RunCall(Head(loc.todo), ok, Tail(loc.todo), ProfileEffect(Head(loc.todo), remote, d),
               ProfileDataBefore(Head(loc.todo), d), ProfileDataAfter(Head(loc.todo), d, remote))
  /\ UNCHANGED <<op, unknown, loopVars>>

\* resourceVSphereConfigurationProfileCreate after the status: the calls on
\* a cluster that is not yet managed by configuration profiles
ProfileCreateRun ==
  /\ op = "resourceVSphereConfigurationProfileCreate"
  /\ ProfileRun

\* The value d.Get("configuration") has in an update.  The attribute is
\* computed: when the configuration does not set it, it keeps the value of
\* the state, and so it does when the difference is suppressed.
PlannedConfiguration(stateVal, supplied) ==
  IF supplied = EmptyConfig THEN stateVal
  ELSE IF configDiffSuppressFunc(stateVal, supplied) THEN stateVal
  ELSE supplied

\* Terraform starts the update of a vsphere_configuration_profile whose
\* state holds oldHost and the configuration read from the cluster.
BeginProfileUpdate ==
  /\ Idle
  /\ \E oldHost \in {""} \cup ProfileHosts : \E host \in {""} \cup ProfileHosts :
     \E current \in ClusterConfigs : \E supplied \in {EmptyConfig} \cup SuppliedConfigs :
     \E u \in SUBSET ProfileSetAttributes(host, supplied) :
     \E drafts \in SUBSET {"draft-0"} :
       LET planned == PlannedConfiguration(current, supplied)
       IN  /\ host # oldHost \/ planned # current
           /\ d' = [ProfileData(host, planned) EXCEPT !.id = ProfileId(ProfileCluster),
                                                      !.schema = ProfileSchema]
           /\ unknown' = u
           /\ remote' = ProfileRemote("ENABLED", current, drafts)
           /\ loc' = [todo |-> <<>>, before |-> remote',
                      supplied |-> supplied, prior |-> ProfileData(oldHost, current)]
  /\ op' = "resourceVSphereConfigurationProfileUpdate"
  /\ pc' = "validate"
  /\ UNCHANGED <<ret, calls, errs, loopVars>>

\* resourceVSphereConfigurationProfileUpdate up to the result of ListDrafts;
\* also the routine the create defers to
resourceVSphereConfigurationProfileUpdate ==
  /\ op \in {"resourceVSphereConfigurationProfileCreate",
             "resourceVSphereConfigurationProfileUpdate"}
  /\ pc = "update"
  /\ \E ok \in BOOLEAN : \E draftsList \in ListsOf(remote.drafts) :
       /\ Issue("ListDrafts", d.cluster_id, ok)
       /\ IF ~ok
          THEN Return(FromErr("ListDrafts")) /\ UNCHANGED loc
          ELSE /\ pc' = "run"
               /\ loc' = [loc EXCEPT !.todo = ProfileUpdateCalls(d, draftsList)]
               /\ UNCHANGED ret
  /\ UNCHANGED <<op, d, unknown, loopVars, remote>>

\* resourceVSphereConfigurationProfileUpdate after ListDrafts
ProfileUpdateRun ==
  /\ op = "resourceVSphereConfigurationProfileUpdate"
  /\ ProfileRun

BeginProfileRead ==
  /\ Idle
  /\ \E current \in ClusterConfigs :
       /\ d' = ProfileData("", EmptyConfig)
       /\ remote' = ProfileRemote("ENABLED", current, {})
       /\ loc' = [todo |-> ReadConfigProfileCalls(ProfileData("", EmptyConfig)),
                  before |-> remote', supplied |-> EmptyConfig,
                  prior |-> ProfileData("", EmptyConfig)]
  /\ op' = "resourceVSphereConfigurationProfileRead"
  /\ pc' = "run"
  /\ UNCHANGED <<unknown, ret, calls, errs, loopVars>>

\* resourceVSphereConfigurationProfileRead
resourceVSphereConfigurationProfileRead ==
  /\ op = "resourceVSphereConfigurationProfileRead"
  /\ ProfileRun

BeginProfileDelete ==
  /\ Idle
  /\ \E host \in {""} \cup ProfileHosts : \E current \in ClusterConfigs :
     \E drafts \in SUBSET {"draft-0"} :
       LET rd == [ProfileData(host, current) EXCEPT !.id = ProfileId(ProfileCluster),
                                                    !.schema = ProfileSchema]
       IN  /\ d' = rd
           /\ remote' = ProfileRemote("ENABLED", current, drafts)
           /\ loc' = [todo |-> ProfileDeleteCalls(rd), before |-> remote',
                      supplied |-> EmptyConfig, prior |-> rd]
  /\ op' = "resourceVSphereConfigurationProfileDelete"
  /\ pc' = "delete"
  /\ UNCHANGED <<unknown, ret, calls, errs, loopVars>>

\* resourceVSphereConfigurationProfileDelete
resourceVSphereConfigurationProfileDelete ==
  /\ op = "resourceVSphereConfigurationProfileDelete"
  /\ pc \in {"delete", "run"}
  /\ IF loc.todo = <<>>
     THEN /\ Return("ok")
          /\ UNCHANGED <<d, calls, errs, remote, loc>>
     ELSE \E ok \in BOOLEAN :
            RunCall(Head(loc.todo), ok, Tail(loc.todo),
                    ProfileEffect(Head(loc.todo), remote, d), d, d)
  /\ UNCHANGED <<op, unknown, loopVars>>

----------------------------------------------------------------------------
(* vsphere_alarm                                                           *)

AlarmId == "alarm-1"
NewAlarmId == "alarm-2"

\* the attributes of resourceVSphereAlarm declared with ForceNew: true
AlarmForceNew == {"entity_id", "entity_type"}

\* the attributes a change of the configuration may touch
AlarmAttributes == {"name", "description", "entity_id"}

\* the value of attribute a: the configured one when the configuration
\* changes it, else the one of the state
AlarmValue(a, changed) == IF a \in changed THEN "new " \o a ELSE "old " \o a

AlarmData(id, changed) ==
  [id |-> id, name |-> AlarmValue("name", changed),
   description |-> AlarmValue("description", changed),
   entity_type |-> "Folder", entity_id |-> AlarmValue("entity_id", changed)]

\* the alarm the platform holds for resource data rd under the ID id
AlarmOf(id, rd) ==
  [id |-> id, name |-> rd.name, description |-> rd.description, entity_id |-> rd.entity_id]

\* the platform after an alarm call has succeeded
AlarmEffect(c, r, rd) ==
  CASE c.api = "CreateAlarm" -> [r EXCEPT !.alarms = @ \cup {AlarmOf(NewAlarmId, rd)}]
    [] c.api = "ReconfigureAlarm" ->
         [r EXCEPT !.alarms = {a \in @ : a.id # rd.id} \cup {AlarmOf(rd.id, rd)}]
    [] c.api = "RemoveAlarm" -> [r EXCEPT !.alarms = {a \in @ : a.id # rd.id}]
    [] OTHER -> r

\* the resource data after an alarm call has succeeded: the create sets the
\* ID, the delete clears it
AlarmDataAfter(c, rd) ==
  CASE c.api = "CreateAlarm" -> [rd EXCEPT !.id = NewAlarmId]
    [] c.api = "RemoveAlarm" -> [rd EXCEPT !.id = ""]
    [] OTHER -> rd

\* resourceVSphereAlarmRead
AlarmReadCalls(rd) ==
  LET step == "resourceVSphereAlarmRead"
  IN  <<StepCall(step, "FindEntity", rd.entity_id), StepCall(step, "alarm.FromID", rd.entity_id)>>

\* resourceVSphereAlarmCreate
AlarmCreateCalls(rd) ==
  LET step == "resourceVSphereAlarmCreate"
  IN  <<StepCall(step, "FindEntity", rd.entity_id), StepCall(step, "CreateAlarm", rd.name)>>
      \o AlarmReadCalls(rd)

\* resourceVSphereAlarmUpdate
AlarmUpdateCalls(rd) ==
  LET step == "resourceVSphereAlarmUpdate"
  IN  <<StepCall(step, "FindEntity", rd.entity_id), StepCall(step, "alarm.FromID", rd.entity_id),
        StepCall(step, "ReconfigureAlarm", rd.name)>>
      \o AlarmReadCalls(rd)

\* resourceVSphereAlarmDelete
AlarmDeleteCalls(rd) == <<StepCall("resourceVSphereAlarmDelete", "RemoveAlarm", rd.id)>>

\* Terraform replaces a resource when the change touches an attribute that
\* is declared with ForceNew, and updates it in place otherwise.
RequiresReplace(changed) == changed \cap AlarmForceNew # {}

BeginAlarmCreate ==
  /\ Idle
  /\ d' = AlarmData("", AlarmAttributes)
  /\ remote' = [alarms |-> {}]
  /\ loc' = [todo |-> AlarmCreateCalls(d'), before |-> remote', changed |-> AlarmAttributes,
             replace |-> FALSE]
  /\ op' = "resourceVSphereAlarmCreate"
  /\ pc' = "run"
  /\ UNCHANGED <<unknown, ret, calls, errs, loopVars>>

\* Terraform applies a change of the configuration of an existing alarm:
\* the update function, or the delete function followed by the create
\* function.
BeginAlarmChange ==
  /\ Idle
  /\ \E changed \in SUBSET AlarmAttributes \ {{}} :
       /\ d' = AlarmData(AlarmId, IF RequiresReplace(changed) THEN {} ELSE changed)
       /\ remote' = [alarms |-> {AlarmOf(AlarmId, AlarmData(AlarmId, {}))}]
       /\ loc' = [todo |-> IF RequiresReplace(changed) THEN AlarmDeleteCalls(d')
                           ELSE AlarmUpdateCalls(d'),
                  before |-> remote', changed |-> changed,
                  replace |-> RequiresReplace(changed)]
       /\ op' = IF RequiresReplace(changed) THEN "resourceVSphereAlarmDelete"
                ELSE "resourceVSphereAlarmUpdate"
  /\ pc' = "run"
  /\ UNCHANGED <<unknown, ret, calls, errs, loopVars>>

BeginAlarmDelete ==
  /\ Idle
  /\ d' = AlarmData(AlarmId, {})
  /\ remote' = [alarms |-> {AlarmOf(AlarmId, d')}]
  /\ loc' = [todo |-> AlarmDeleteCalls(d'), before |-> remote', changed |-> {},
             replace |-> FALSE]
  /\ op' = "resourceVSphereAlarmDelete"
  /\ pc' = "run"
  /\ UNCHANGED <<unknown, ret, calls, errs, loopVars>>

\* the next remote call of an alarm function
AlarmRun ==
  /\ pc = "run"
  /\ \E ok \in BOOLEAN :
       RunCall(Head(loc.todo), ok, Tail(loc.todo), AlarmEffect(Head(loc.todo), remote, d),
               d, AlarmDataAfter(Head(loc.todo), d))
  /\ UNCHANGED <<op, unknown, loopVars>>

resourceVSphereAlarmCreate ==
  /\ op = "resourceVSphereAlarmCreate"
  /\ AlarmRun

resourceVSphereAlarmUpdate ==
  /\ op = "resourceVSphereAlarmUpdate"
  /\ AlarmRun

resourceVSphereAlarmDelete ==
  /\ op = "resourceVSphereAlarmDelete"
  /\ AlarmRun

\* the second half of a replacement: the old alarm is gone, Terraform calls
\* the create function with the new configuration
AlarmReplaceCreate ==
  /\ op = "resourceVSphereAlarmDelete"
  /\ pc = "done" /\ ret = "ok"
  /\ loc.replace
  /\ d' = AlarmData("", loc.changed)
  /\ loc' = [loc EXCEPT !.todo = AlarmCreateCalls(d'), !.replace = FALSE]
  /\ op' = "resourceVSphereAlarmCreate"
  /\ pc' = "run"
  /\ ret' = "none"
  /\ UNCHANGED <<unknown, calls, errs, loopVars, remote>>

\* Terraform reads the data source vsphere_configuration_profile
BeginProfileDataSourceRead ==
  /\ Idle
  /\ \E current \in ClusterConfigs :
       /\ d' = ProfileData("", EmptyConfig)
       /\ remote' = ProfileRemote("ENABLED", current, {})
       /\ loc' = [todo |-> ReadConfigProfileCalls(ProfileData("", EmptyConfig)),
                  before |-> remote', supplied |-> EmptyConfig,
                  prior |-> ProfileData("", EmptyConfig)]
  /\ op' = "dataSourceVSphereConfigurationProfileRead"
  /\ pc' = "run"
  /\ UNCHANGED <<unknown, ret, calls, errs, loopVars>>

\* dataSourceVSphereConfigurationProfileRead
dataSourceVSphereConfigurationProfileRead ==
  /\ op = "dataSourceVSphereConfigurationProfileRead"
  /\ ProfileRun

----------------------------------------------------------------------------
(* data source vsphere_network                                             *)

waitForNetworkPending == "waitForNetworkPending"
waitForNetworkCompleted == "waitForNetworkCompleted"
waitForNetworkError == "waitForNetworkError"

\* the states readRetryFunc returns
waitForNetworkStates ==
  {waitForNetworkPending, waitForNetworkCompleted, waitForNetworkError}

NetworkId == "network-1"
NetworkName == "net-1"
NetworkVlanId == 100

\* the values of retry_timeout (seconds) the data source is read with
RetryTimeouts == {0, 1}
\* the values of retry_interval (milliseconds) the data source is read with
RetryIntervals == {150, 500, 1000}

\* the schema of dataSourceVSphereNetwork: exactly one of name and vlan_id,
\* retry_timeout and retry_interval
NetworkData(vlan, dvSwitchUUID, vpcID, retryTimeout, retryInterval) ==
  [id |-> "", type |-> "",
   name |-> IF vlan THEN "" ELSE NetworkName,
   vlan_id |-> IF vlan THEN Some(NetworkVlanId) ELSE Nil,
   distributed_virtual_switch_uuid |-> IF dvSwitchUUID THEN "dvs-1" ELSE "",
   vpc_id |-> IF vpcID THEN "vpc-1" ELSE "",
   retry_timeout |-> retryTimeout,
   retry_interval |-> retryInterval]

\* readRetryFunc: the lookup it makes for the attributes that are set
NetworkLookup(rd) ==
  IF rd.distributed_virtual_switch_uuid # "" THEN "network.FromNameAndDVSUuid"
  ELSE IF rd.vpc_id # "" THEN "network.FromNameAndVPCId"
  ELSE IF ~IsNil(rd.vlan_id) THEN "finder.NetworkList"
  ELSE "network.FromName"

\* the error for a lookup that ended in waitForNetworkPending
NetworkNotFound(rd) ==
  IF ~IsNil(rd.vlan_id)
  THEN "network with vlan_id " \o ToString(rd.vlan_id[1]) \o " not found"
  ELSE "network " \o rd.name \o " not found"

\* the error of WaitForState when Timeout has passed
NetworkTimeoutError ==
  "timeout while waiting for state to become 'waitForNetworkCompleted'"

\* Timeout of the StateChangeConf, in milliseconds
NetworkTimeout(rd) == rd.retry_timeout * 1000

\* a variant of NextWait for a StateChangeConf without MinTimeout
NextWaitWithoutMinTimeout(wait, rd) ==
  LET w == (IF wait = 0 THEN 100 ELSE wait) * 2
  IN  IF w > 10000 THEN 10000 ELSE w

\* WaitForState: the wait before the next refresh, in milliseconds.  The
\* first refresh is made at once; the wait then starts at 100 ms, doubles
\* after every refresh and is kept between MinTimeout and 10 seconds.
NextWait(wait, rd) ==
  LET w == (IF wait = 0 THEN 100 ELSE wait) * 2
  IN  IF w < rd.retry_interval THEN rd.retry_interval
      ELSE IF w > 10000 THEN 10000 ELSE w

\* Terraform reads the data source vsphere_network
BeginNetworkRead ==
  /\ Idle
  /\ \E vlan \in BOOLEAN, dvSwitchUUID \in BOOLEAN, vpcID \in BOOLEAN,
        retryTimeout \in RetryTimeouts, retryInterval \in RetryIntervals :
       d' = NetworkData(vlan, dvSwitchUUID, vpcID, retryTimeout, retryInterval)
  /\ loc' = [state |-> "", wait |-> 0, elapsed |-> 0]
  /\ remote' = NoRemote
  /\ op' = "dataSourceVSphereNetworkRead"
  /\ pc' = "run"
  /\ UNCHANGED <<unknown, ret, calls, errs, loopVars>>

\* dataSourceVSphereNetworkRead from the end of the lookups on: state and err
\* are what the lookups left in the variables of the function
NetworkReadFinish(state, err) ==
  LET e == IF state = waitForNetworkPending THEN Some(NetworkNotFound(d)) ELSE err
  IN  IF ~IsNil(e)
      THEN Return(e[1]) /\ UNCHANGED d
      ELSE Return("ok") /\ d' = [d EXCEPT !.id = NetworkId, !.type = "Network"]

\* dataSourceVSphereNetworkRead with retry_timeout = 0: one call of
\* readRetryFunc
dataSourceVSphereNetworkReadNoRetry ==
  /\ op = "dataSourceVSphereNetworkRead"
  /\ pc = "run"
  /\ d.retry_timeout = 0
  /\ \E state \in waitForNetworkStates :
       /\ calls' = Append(calls, Call(NetworkLookup(d), [at |-> 0, state |-> state]))
       /\ errs' = IF state = waitForNetworkError
                  THEN Append(errs, NetworkLookup(d)) ELSE errs
       /\ loc' = [loc EXCEPT !.state = state]
       /\ NetworkReadFinish(state,
            IF state = waitForNetworkError THEN Some(FromErr(NetworkLookup(d))) ELSE Nil)
  /\ UNCHANGED <<op, unknown, loopVars, remote>>

\* dataSourceVSphereNetworkRead with retry_timeout # 0: WaitForState makes
\* the next call of readRetryFunc, loc.wait milliseconds after the last one;
\* it goes on waiting at waitForNetworkPending and returns at
\* waitForNetworkCompleted and at an error.  The state it was given never
\* reaches the variable state of the function.
dataSourceVSphereNetworkReadRefresh ==
  /\ op = "dataSourceVSphereNetworkRead"
  /\ pc = "run"
  /\ d.retry_timeout # 0
  /\ loc.elapsed + loc.wait <= NetworkTimeout(d)
  /\ \E state \in waitForNetworkStates :
       /\ calls' = Append(calls, Call(NetworkLookup(d),
                            [at |-> loc.elapsed + loc.wait, state |-> state]))
       /\ errs' = IF state = waitForNetworkError
                  THEN Append(errs, NetworkLookup(d)) ELSE errs
       /\ loc' = [loc EXCEPT !.elapsed = loc.elapsed + loc.wait,
                             !.wait = NextWait(loc.wait, d)]
       /\ CASE state = waitForNetworkPending ->
                 UNCHANGED <<pc, ret, d>>
            [] state = waitForNetworkCompleted ->
                 NetworkReadFinish(loc.state, Nil)
            [] state = waitForNetworkError ->
                 NetworkReadFinish(loc.state, Some(FromErr(NetworkLookup(d))))
  /\ UNCHANGED <<op, unknown, loopVars, remote>>

\* dataSourceVSphereNetworkRead with retry_timeout # 0: Timeout passes
\* before WaitForState has seen waitForNetworkCompleted
dataSourceVSphereNetworkReadTimeout ==
  /\ op = "dataSourceVSphereNetworkRead"
  /\ pc = "run"
  /\ d.retry_timeout # 0
  /\ loc.elapsed + loc.wait >= NetworkTimeout(d)
  /\ loc' = [loc EXCEPT !.elapsed = NetworkTimeout(d)]
  /\ NetworkReadFinish(loc.state, Some(NetworkTimeoutError))
  /\ UNCHANGED <<op, unknown, calls, errs, loopVars, remote>>

----------------------------------------------------------------------------
(* vsphere_compute_cluster: delete                                         *)

\* the cluster of a delete on the platform: its hosts and whether it has
\* virtual machines
ClusterDeleteRemote(hosts, vms) ==
  ClusterRemote(TRUE, hosts, {}, FALSE) @@ [vms |-> vms]

\* the resource data of a cluster that is deleted
ClusterDeleteData(hostIds, force, faultDomains, failoverHost, remoteDatastores) ==
  [id |-> ClusterId, name |-> "cluster-1", host_system_ids |-> hostIds,
   force_evacuate_on_destroy |-> force,
   vsan_fault_domains |-> faultDomains,
   ha_admission_control_failover_host |-> failoverHost,
   vsan_remote_datastore_ids |-> remoteDatastores]

\* the platform after a call of the cluster delete has succeeded: virtual
\* machines run on the hosts of the cluster
ClusterDeleteEffect(c, r) ==
  IF c.api = "clustercomputeresource.Delete"
  THEN [r EXCEPT !.exists = FALSE]
  ELSE LET moved == ClusterEffect(c, r)
       IN  [moved EXCEPT !.vms = @ /\ moved.hosts # {}]

\* clustercomputeresource.HasChildren
HasChildren(r) == r.hosts # {} \/ r.vms

\* resourceVSphereComputeClusterDeleteProcessForceRemoveFaultDomain
ForceRemoveFaultDomainCalls(rd) ==
  LET step == "resourceVSphereComputeClusterDeleteProcessForceRemoveFaultDomain"
  IN  IF rd.force_evacuate_on_destroy /\ rd.vsan_fault_domains
      THEN <<StepCall(step, "Reconfigure", rd.name)>>
      ELSE <<>>

\* resourceVSphereComputeClusterDelete: HA is turned off when admission
\* control uses failover hosts
DisableHaCalls(rd) ==
  IF rd.ha_admission_control_failover_host
  THEN <<StepCall("resourceVSphereComputeClusterDelete", "Reconfigure", rd.name)>>
  ELSE <<>>

\* resourceVSphereComputeClusterDeleteProcessForceRemoveHosts
ForceRemoveHostsCalls(rd, hosts) ==
  LET step == "resourceVSphereComputeClusterDeleteProcessForceRemoveHosts"
  IN  IF rd.force_evacuate_on_destroy
      THEN PerHost(step, "hostsystem.FromID", hosts)
           \o <<StepCall(step, "MoveHostsOutOf", hosts)>>
      ELSE <<>>

\* resourceVSphereComputeClusterDeleteProcessForceRemoveVsanRemoteDatastore
ForceRemoveVsanRemoteDatastoreCalls(rd) ==
  LET step == "resourceVSphereComputeClusterDeleteProcessForceRemoveVsanRemoteDatastore"
  IN  IF rd.force_evacuate_on_destroy /\ rd.vsan_remote_datastore_ids
      THEN <<StepCall(step, "vsanclient.Reconfigure", rd.name)>>
      ELSE <<>>

\* resourceVSphereComputeClusterValidateEmptyCluster
ValidateEmptyClusterCalls(rd) ==
  <<StepCall("resourceVSphereComputeClusterValidateEmptyCluster", "HasChildren", rd.name)>>

\* resourceVSphereComputeClusterApplyDelete
ApplyDeleteCalls(rd) ==
  <<StepCall("resourceVSphereComputeClusterApplyDelete", "clustercomputeresource.Delete", rd.name)>>

\* a variant of ClusterDeleteCalls that does not check that the cluster is
\* empty
ClusterDeleteCallsWithoutValidation(rd, hosts) ==
  <<StepCall("resourceVSphereComputeClusterGetCluster", "clustercomputeresource.FromID", "delete")>>
  \o ForceRemoveFaultDomainCalls(rd)
  \o DisableHaCalls(rd)
  \o ForceRemoveHostsCalls(rd, hosts)
  \o ForceRemoveVsanRemoteDatastoreCalls(rd)
  \o ApplyDeleteCalls(rd)

\* resourceVSphereComputeClusterDelete; hosts lists host_system_ids
ClusterDeleteCalls(rd, hosts) ==
  <<StepCall("resourceVSphereComputeClusterGetCluster", "clustercomputeresource.FromID", "delete")>>
  \o ForceRemoveFaultDomainCalls(rd)
  \o DisableHaCalls(rd)
  \o ForceRemoveHostsCalls(rd, hosts)
  \o ForceRemoveVsanRemoteDatastoreCalls(rd)
  \o ValidateEmptyClusterCalls(rd)
  \o ApplyDeleteCalls(rd)

\* the error of resourceVSphereComputeClusterValidateEmptyCluster for a
\* cluster that is not empty
ClusterNotEmpty ==
  "cluster 'cluster-1' still has hosts or virtual machines. "
    \o "Please move or remove all items before deleting"

\* Terraform deletes a cluster: the platform has the hosts present in it,
\* the state lists the hosts hostIds
BeginClusterDelete ==
  /\ Idle
  /\ \E present \in SUBSET ClusterHosts : \E hostIds \in SUBSET ClusterHosts :
     \E hosts \in ListsOf(hostIds) : \E vms \in BOOLEAN :
     \E force \in BOOLEAN, faultDomains \in BOOLEAN, failoverHost \in BOOLEAN,
        remoteDatastores \in BOOLEAN :
       LET rd == ClusterDeleteData(hostIds, force, faultDomains, failoverHost,
                                   remoteDatastores)
       IN  /\ vms => present # {}
           /\ d' = rd
           /\ remote' = ClusterDeleteRemote(present, vms)
           /\ loc' = [todo |-> ClusterDeleteCalls(rd, hosts), before |-> remote']
  /\ op' = "resourceVSphereComputeClusterDelete"
  /\ pc' = "run"
  /\ UNCHANGED <<unknown, ret, calls, errs, loopVars>>

\* resourceVSphereComputeClusterDelete: the next remote call.  HasChildren
\* that finds hosts or virtual machines ends the delete with an error.
resourceVSphereComputeClusterDelete ==
  /\ op = "resourceVSphereComputeClusterDelete" /\ pc = "run"
  /\ LET c == Head(loc.todo)
     IN  \E ok \in BOOLEAN :
           IF ok /\ c.api = "HasChildren" /\ HasChildren(remote)
           THEN /\ IssueCall(c, TRUE)
                /\ Return(ClusterNotEmpty)
                /\ UNCHANGED <<d, remote, loc>>
           ELSE RunCall(c, ok, Tail(loc.todo), ClusterDeleteEffect(c, remote), d, d)
  /\ UNCHANGED <<op, unknown, loopVars>>

----------------------------------------------------------------------------
Next ==
  \/ BeginSupervisorV2Create
  \/ ValidateSupervisorV2
  \/ resourceVsphereSupervisorV2Create
  \/ TickerFires
  \/ CtxCancel
  \/ WaitForSupervisorEnableCtxDone
  \/ WaitForSupervisorEnableTick
  \/ BeginSupervisorV2Read
  \/ resourceVsphereSupervisorV2Read
  \/ BeginSupervisorV2Delete
  \/ SupervisorV2DeleteGetTopology
  \/ SupervisorV2DeleteDisableCluster
  \/ WaitForSupervisorDisableCtxDone
  \/ WaitForSupervisorDisableTick
  \/ BeginNamespaceCreate
  \/ NamespaceCreateCreateNamespaceV2
  \/ waitForNamespaceCreationCtxDone
  \/ waitForNamespaceCreationTick
  \/ BeginNamespaceRead
  \/ resourceVSphereNamespaceRead
  \/ BeginNamespaceUpdate
  \/ resourceVSphereNamespaceUpdate
  \/ BeginNamespaceDelete
  \/ resourceVSphereNamespaceDelete
  \/ BeginZoneCreate
  \/ resourceVSphereZoneCreate
  \/ BeginZoneUpdate
  \/ resourceVSphereZoneUpdate
  \/ BeginZoneRead
  \/ resourceVSphereZoneRead
  \/ BeginZoneDelete
  \/ resourceVSphereZoneDelete
  \/ BeginClusterCreate
  \/ resourceVSphereComputeClusterCreate
  \/ BeginClusterUpdate
  \/ resourceVSphereComputeClusterUpdate
  \/ BeginProfileCreate
  \/ ValidateConfigurationProfile
  \/ resourceVSphereConfigurationProfileCreate
  \/ ProfileCreateRun
  \/ BeginProfileUpdate
  \/ resourceVSphereConfigurationProfileUpdate
  \/ ProfileUpdateRun
  \/ BeginProfileRead
  \/ resourceVSphereConfigurationProfileRead
  \/ BeginProfileDelete
  \/ resourceVSphereConfigurationProfileDelete
  \/ BeginAlarmCreate
  \/ BeginAlarmChange
  \/ BeginAlarmDelete
  \/ resourceVSphereAlarmCreate
  \/ resourceVSphereAlarmUpdate
  \/ resourceVSphereAlarmDelete
  \/ AlarmReplaceCreate
  \/ BeginProfileDataSourceRead
  \/ dataSourceVSphereConfigurationProfileRead
  \/ ValidateComputeCluster
  \/ BeginNetworkRead
  \/ dataSourceVSphereNetworkReadNoRetry
  \/ dataSourceVSphereNetworkReadRefresh
  \/ dataSourceVSphereNetworkReadTimeout
  \/ BeginClusterDelete
  \/ resourceVSphereComputeClusterDelete

Spec == Init /\ [][Next]_vars

----------------------------------------------------------------------------
(* Properties                                                              *)

SupervisorCreate == op = "resourceVsphereSupervisorV2Create"
SupervisorDelete == op = "resourceVsphereSupervisorV2Delete"
ZoneCreate == op = "resourceVSphereZoneCreate"
ClusterOps == {"resourceVSphereComputeClusterCreate", "resourceVSphereComputeClusterUpdate"}
ZoneOps == {"resourceVSphereZoneCreate", "resourceVSphereZoneUpdate",
            "resourceVSphereZoneRead", "resourceVSphereZoneDelete"}
ProfileOps == {"resourceVSphereConfigurationProfileCreate",
               "resourceVSphereConfigurationProfileUpdate",
               "resourceVSphereConfigurationProfileRead"}

\* C1 as stated: WaitForSupervisorEnable returns "could not enable
\* supervisor" at the 5th ERROR poll in a row and never earlier, and a
\* RUNNING poll returns success.
C1_GivesUpAtFifthError ==
  SupervisorCreate =>
    /\ consecutiveErrors >= 5 => ret = "could not enable supervisor"
    /\ ret = "could not enable supervisor" => consecutiveErrors >= 5
    /\ info = RunningConfigStatus => ret = "ok"

\* C1 (amended): WaitForSupervisorEnable counts the ERROR polls since the
\* start or the last CONFIGURING poll, a REMOVING poll in between leaves the
\* count alone; it tolerates 5 of them and returns "could not enable
\* supervisor" at the 6th and never earlier; a RUNNING poll returns success.
C1_GivesUpAtSixthError ==
  SupervisorCreate =>
    /\ errorsSinceConfiguring >= 6 => ret = "could not enable supervisor"
    /\ ret = "could not enable supervisor" =>
         errorsSinceConfiguring = 6 /\ info = ErrorConfigStatus
    /\ info = RunningConfigStatus => ret = "ok"
    /\ pc = "WaitForSupervisorEnable" => failureCount = errorsSinceConfiguring

\* the wait has given up at the 6th ERROR poll, after a REMOVING poll
\* interrupted the ERROR polls
C1_Witness ==
  /\ SupervisorCreate
  /\ ret = "could not enable supervisor"
  /\ errorsSinceConfiguring = 6
  /\ consecutiveErrors < 6

ErrorFor(api) ==
  IF SupervisorCreate /\ api = "GetSupervisorSummary"
  THEN "could not find supervisor"
  ELSE FromErr(api)

ClusterCreateSteps ==
  <<"resourceVSphereComputeClusterApplyCreate",
    "resourceVSphereComputeClusterApplyTags",
    "resourceVSphereComputeClusterApplyCustomAttributes",
    "resourceVSphereComputeClusterProcessHostUpdate",
    "resourceVSphereComputeClusterApplyClusterConfiguration",
    "resourceVSphereComputeClusterApplyHostImage",
    "resourceVSphereComputeClusterRead">>

\* the steps of resourceVSphereComputeClusterUpdate
ClusterUpdateSteps ==
  <<"resourceVSphereComputeClusterGetCluster",
    "resourceVSphereComputeClusterApplyNameChange",
    "resourceVSphereComputeClusterApplyFolderChange",
    "resourceVSphereComputeClusterProcessHostUpdate",
    "resourceVSphereComputeClusterApplyClusterConfiguration",
    "resourceVSphereComputeClusterApplyTags",
    "resourceVSphereComputeClusterApplyCustomAttributes",
    "resourceVSphereComputeClusterApplyHostImage",
    "resourceVSphereComputeClusterRead">>

\* the calls of zone update, in the order of the function body
ZoneUpdateApis == <<"RemoveAssociations", "AddAssociations", "GetZone", "GetAssociations">>

Rank(order, x) == CHOOSE i \in 1..Len(order) : order[i] = x

\* the calls issued so far follow the order of steps
CallsInStepOrder(steps) ==
  \A i, j \in 1..Len(calls) :
    i < j => Rank(steps, calls[i].step) <= Rank(steps, calls[j].step)

\* the zone create has run its cleanup: AddAssociations failed and DeleteZone
\* was called
CleanedUp ==
  /\ ZoneCreate
  /\ errs # <<>>
  /\ calls[Len(calls)].api = "DeleteZone"

\* the calls that were issued before the first failing call
Completed ==
  IF errs = <<>> THEN calls
  ELSE IF CleanedUp THEN SubSeq(calls, 1, Len(calls) - 2)
  ELSE SubSeq(calls, 1, Len(calls) - 1)

\* the platform after the calls of cs have taken effect on r, one after
\* another
RECURSIVE EffectsOf(_, _)
EffectsOf(cs, r) ==
  IF cs = <<>> THEN r
  ELSE EffectsOf(Tail(cs),
                 IF op \in ZoneOps THEN ZoneEffect(Head(cs), r)
                 ELSE IF op \in ClusterOps THEN ClusterEffect(Head(cs), r)
                 ELSE ProfileEffect(Head(cs), r, d))

C5_AtMostFivePolls ==
  SupervisorCreate =>
    /\ now = 60 * (polls + (IF tickPending THEN 1 ELSE 0))
    /\ polls <= 5

\* C5 (amended): the wait for the supervisor to be enabled polls every 60
\* seconds; the number of polls is not bounded: the wait goes on as long as
\* the polls report CONFIGURING or REMOVING, or ERROR fewer than 6 times
\* since the last CONFIGURING, and it returns only at a RUNNING poll
\* (success), at a failed poll or at the 6th such ERROR poll (error).
C5_PollsEverySixtySeconds ==
  SupervisorCreate =>
    /\ now = 60 * (polls + (IF tickPending THEN 1 ELSE 0))
    /\ pc = "WaitForSupervisorEnable" =>
         /\ ret = "none"
         /\ info \in {"none", ConfiguringConfigStatus, RemovingConfigStatus, ErrorConfigStatus}
         /\ errorsSinceConfiguring <= 5
    /\ pc = "done" /\ polls > 0 =>
         \/ info = RunningConfigStatus /\ ret = "ok"
         \/ info = ApiErr /\ ret = "could not find supervisor"
         \/ info = ErrorConfigStatus /\ ret = "could not enable supervisor"

\* the wait is still going on after more than 5 polls
C5_Witness ==
  /\ SupervisorCreate
  /\ pc = "WaitForSupervisorEnable"
  /\ polls > 5
  /\ now > 300

ProfileCreate == op = "resourceVSphereConfigurationProfileCreate"
ProfileUpdate == op = "resourceVSphereConfigurationProfileUpdate"
ProfileDelete == op = "resourceVSphereConfigurationProfileDelete"

\* C6: In an update of a configuration profile that changes the source,
\* the draft that ApplyDraft applies holds the configuration imported from
\* the reference host when reference_host_id is now set, and the supplied
\* JSON configuration (up to its "metadata" member, which the provider does
\* not compare) when configuration is now set; when the update succeeds
\* that draft is the configuration of the cluster.
C6_UpdateSwitchesSource ==
  ProfileUpdate /\ loc.prior.reference_host_id # d.reference_host_id
                /\ "ApplyDraft" \in CallNames =>
    /\ d.reference_host_id # "" => remote.draft = HostConfig(d.reference_host_id)
    /\ d.reference_host_id = "" /\ loc.supplied # EmptyConfig =>
         remote.draft.body = loc.supplied.body
    /\ ret = "ok" => remote.config = remote.draft

\* an update has switched a cluster from a JSON configuration to the
\* configuration of a reference host
C6_Witness ==
  /\ ProfileUpdate
  /\ loc.prior.reference_host_id = ""
  /\ d.reference_host_id = "host-1"
  /\ ret = "ok"
  /\ loc.before.config # HostConfig("host-1")
  /\ remote.config = HostConfig("host-1")

EnableApis == {"EnableOnZones", "EnableOnComputeCluster"}

\* C7: A supervisor is enabled through exactly one path.  A configuration
\* with both cluster and zones is rejected and no enable call is issued;
\* with zones only EnableOnZones is the enable call, with cluster only
\* EnableOnComputeCluster; with neither the create fails with "either
\* 'zones' or 'cluster' must be specified" and issues no remote call.  An
\* enable call is missing only when the enable specification cannot be
\* built.
C7_OneEnablePath ==
  SupervisorCreate =>
    LET hasCluster == d.cluster # ""
        hasZones == Len(d.zones) > 0
        entered == pc \in {"WaitForSupervisorEnable", "done"}
    IN  /\ Cardinality({i \in 1..Len(calls) : calls[i].api \in EnableApis}) <= 1
        /\ hasCluster /\ hasZones =>
             /\ CallNames \cap EnableApis = {}
             /\ pc = "done" => IsFailure(ret)
        /\ ~hasCluster /\ hasZones =>
             /\ "EnableOnComputeCluster" \notin CallNames
             /\ entered => \/ "EnableOnZones" \in CallNames
                           \/ ret = EnableCall(d, TRUE).err /\ ret # ""
        /\ hasCluster /\ ~hasZones =>
             /\ "EnableOnZones" \notin CallNames
             /\ entered => \/ "EnableOnComputeCluster" \in CallNames
                           \/ ret = EnableCall(d, FALSE).err /\ ret # ""
        /\ ~hasCluster /\ ~hasZones =>
             /\ calls = <<>>
             /\ pc = "done" => ret = "either 'zones' or 'cluster' must be specified"

\* a configuration with cluster and zones has been rejected without a
\* remote call
C7_Witness ==
  /\ SupervisorCreate
  /\ d.cluster # "" /\ Len(d.zones) > 0
  /\ pc = "done"
  /\ ret = "\"cluster\": conflicts with zones"
  /\ calls = <<>>

\* C8: Creating a configuration profile with both reference_host_id and
\* configuration non-empty fails before any remote call is made: the
\* configuration is rejected when it is validated against the schema, at the
\* latest when the create is applied and both values are known, so that the
\* create function is not entered with both.
C8_CreateWithBothSourcesFails ==
  ProfileCreate /\ d.reference_host_id # "" /\ loc.supplied # EmptyConfig =>
    /\ calls = <<>>
    /\ pc \in {"validate", "apply", "done"}
    /\ pc = "done" => IsFailure(ret)

\* a create with both sources has failed without a remote call
C8_Witness ==
  /\ ProfileCreate
  /\ d.reference_host_id # "" /\ loc.supplied # EmptyConfig
  /\ pc = "done"
  /\ IsFailure(ret)
  /\ calls = <<>>

\* C9: The delete of a configuration profile issues no remote call and
\* returns success; the cluster's configuration, its drafts and its
\* management by configuration profiles stay as they were.
C9_DeleteLeavesClusterAlone ==
  ProfileDelete =>
    /\ calls = <<>>
    /\ remote = loc.before
    /\ ret \in {"none", "ok"}
    /\ pc = "done" => ret = "ok"

\* a delete has returned and the cluster is still managed by configuration
\* profiles
C9_Witness ==
  /\ ProfileDelete
  /\ pc = "done"
  /\ ret = "ok"
  /\ remote.status = "ENABLED"
  /\ remote.config \in ClusterConfigs

\* C10 as stated: a proxy block with settings_source CLUSTER_CONFIGURED
\* and any of http_config, https_config, tls_root_ca_bundle, no_proxy_config
\* is accepted: once the create has built the specification, the enable call
\* has been issued and carries the given values.
C10_ClusterConfiguredProxyAccepted ==
  SupervisorCreate /\ Len(d.control_plane_network.proxy) = 1
                   /\ pc \in {"WaitForSupervisorEnable", "done"} =>
    LET proxy == d.control_plane_network.proxy[1]
    IN  /\ proxy.settings_source = "CLUSTER_CONFIGURED"
        /\ \/ proxy.http_config # ""
           \/ proxy.https_config # ""
           \/ proxy.tls_root_ca_bundle # ""
           \/ ~IsNil(proxy.no_proxy_config)
        => \E i \in 1..Len(calls) :
             /\ calls[i].api \in EnableApis
             /\ LET passed == calls[i].arg.ControlPlane.Network[1].Proxy[1]
                IN  /\ passed.ProxySettingsSource = "CLUSTER_CONFIGURED"
                    /\ proxy.http_config # "" =>
                         passed.HTTPProxyConfig = Some(proxy.http_config)
                    /\ proxy.https_config # "" =>
                         passed.HTTPSProxyConfig = Some(proxy.https_config)
                    /\ proxy.tls_root_ca_bundle # "" =>
                         passed.TLSRootCABundle = Some(proxy.tls_root_ca_bundle)
                    /\ ~IsNil(proxy.no_proxy_config) =>
                         passed.NoProxyConfig = Some(proxy.no_proxy_config[1])

AlarmOps ==
  {"resourceVSphereAlarmCreate", "resourceVSphereAlarmUpdate", "resourceVSphereAlarmDelete"}

\* C11 as stated: a change of the name of an existing alarm replaces the
\* alarm: the existing alarm is removed and a new one created, it is never
\* reconfigured in place.
C11_NameChangeReplacesAlarm ==
  op \in AlarmOps /\ "name" \in loc.changed /\ loc.before.alarms # {} =>
    /\ "ReconfigureAlarm" \notin CallNames
    /\ pc = "done" /\ ret = "ok" /\ ~loc.replace =>
         /\ "RemoveAlarm" \in CallNames
         /\ "CreateAlarm" \in CallNames

ProfileReads ==
  {"resourceVSphereConfigurationProfileRead", "dataSourceVSphereConfigurationProfileRead"}

\* C12 as stated: after a successful read of a configuration profile
\* (resource or data source) the id is "configuration_profile_" followed by
\* the cluster_id.
C12_IdIsConfigurationProfileClusterId ==
  op \in ProfileReads /\ ret = "ok" => d.id = "configuration_profile_" \o d.cluster_id

\* the number of blocks among vsphere, nsx and nsx_vpc that the workload
\* network of the configuration provides
NumWorkloadNetworks ==
  (IF Len(d.workloads_network.vsphere) > 0 THEN 1 ELSE 0)
  + (IF Len(d.workloads_network.nsx) > 0 THEN 1 ELSE 0)
  + (IF Len(d.workloads_network.nsx_vpc) > 0 THEN 1 ELSE 0)

\* C13: A supervisor configuration whose workload network provides more
\* than one of vsphere, nsx and nsx_vpc issues no enable call, and the create
\* that gets as far as building the workloads fails with "workload can only
\* have one type of network"; when exactly one is provided, the network type
\* in the enable call is VSPHERE for vsphere, NSXT for nsx and NSX_VPC for
\* nsx_vpc.
C13_OneWorkloadNetworkType ==
  SupervisorCreate =>
    /\ NumWorkloadNetworks > 1 =>
         /\ CallNames \cap EnableApis = {}
         /\ pc = "done" /\ EnablePath(d) # "none" /\ buildControlPlane(d).err = ""
              /\ ~(d.cluster # "" /\ Len(d.zones) > 0)
            => ret = "workload can only have one type of network"
    /\ NumWorkloadNetworks = 1 =>
         \A i \in 1..Len(calls) :
           calls[i].api \in EnableApis =>
             calls[i].arg.Workloads.Network[1].NetworkType =
               (IF Len(d.workloads_network.vsphere) > 0 THEN "VSPHERE"
                ELSE IF Len(d.workloads_network.nsx) > 0 THEN "NSXT"
                ELSE "NSX_VPC")

\* a configuration with a vsphere and an nsx_vpc block has been rejected
\* without an enable call
C13_Witness ==
  /\ SupervisorCreate
  /\ Len(d.workloads_network.vsphere) > 0
  /\ Len(d.workloads_network.nsx_vpc) > 0
  /\ ret = "workload can only have one type of network"
  /\ calls = <<>>

\* the enable call of a configuration with only an nsx block carries NSXT
C13_SentWitness ==
  /\ SupervisorCreate
  /\ NumWorkloadNetworks = 1
  /\ \E i \in 1..Len(calls) :
       calls[i].api = "EnableOnZones" /\ calls[i].arg.Workloads.Network[1].NetworkType = "NSXT"

\* C14: A cluster configuration that sets both host_managed and
\* host_system_ids is rejected when it is validated against the schema: the
\* create or update fails and no remote call is made.
C14_HostManagedConflictsWithHostSystemIds ==
  op \in ClusterOps /\ ~IsNil(d.host_managed) /\ d.host_system_ids # {} =>
    /\ calls = <<>>
    /\ pc \in {"validate", "apply", "done"}
    /\ pc = "done" => IsFailure(ret)

\* a cluster create with host_managed and two hosts in host_system_ids has
\* been rejected
C14_Witness ==
  /\ op = "resourceVSphereComputeClusterCreate"
  /\ d.host_managed = Some(TRUE)
  /\ Cardinality(d.host_system_ids) = 2
  /\ pc = "done"
  /\ IsFailure(ret)
  /\ calls = <<>>

NetworkRead == op = "dataSourceVSphereNetworkRead"

\* the state that lookup i of the read returned, and the time it was made at
NetworkStateAt(i) == calls[i].arg.state
NetworkTimeAt(i) == calls[i].arg.at

\* C15: The read of the data source vsphere_network with retry_timeout = 0
\* makes exactly one lookup and fails with a 'not found' error when the
\* network is not found.  With retry_timeout > 0 a lookup that does not find
\* the network is repeated, at least retry_interval milliseconds after the
\* one before, until a lookup finds the network, which makes the read
\* succeed at once, or retry_timeout seconds have passed.  A lookup that
\* returns any other error fails the read with that error and is the last.
C15_NetworkLookupRetried ==
  NetworkRead =>
    /\ \A i \in 1..Len(calls) :
         /\ i < Len(calls) => NetworkStateAt(i) = waitForNetworkPending
         /\ i > 1 => NetworkTimeAt(i) - NetworkTimeAt(i - 1) >= d.retry_interval
         /\ NetworkTimeAt(i) <= d.retry_timeout * 1000
    /\ pc = "done" /\ d.retry_timeout = 0 =>
         /\ Len(calls) = 1
         /\ NetworkStateAt(1) = waitForNetworkPending =>
              ret \in {"network net-1 not found", "network with vlan_id 100 not found"}
    /\ pc = "done" /\ calls # <<>> /\ NetworkStateAt(Len(calls)) = waitForNetworkCompleted =>
         ret = "ok" /\ d.id = NetworkId
    /\ pc = "done" /\ calls # <<>> /\ NetworkStateAt(Len(calls)) = waitForNetworkError =>
         ret = FromErr(calls[Len(calls)].api)
    /\ pc = "done" /\ d.retry_timeout > 0
         /\ (calls = <<>> \/ NetworkStateAt(Len(calls)) = waitForNetworkPending) =>
         /\ IsFailure(ret)
         /\ loc.elapsed = d.retry_timeout * 1000
    /\ pc # "done" => ret = "none"
    /\ pc # "done" /\ d.retry_timeout > 0 =>
         \A i \in 1..Len(calls) : NetworkStateAt(i) = waitForNetworkPending

\* a read with retry_timeout = 1 and retry_interval = 500 has not found the
\* network at once, has found it 500 ms later and has succeeded
C15_Witness ==
  /\ NetworkRead
  /\ d.retry_timeout = 1
  /\ d.retry_interval = 500
  /\ Len(calls) = 2
  /\ NetworkStateAt(1) = waitForNetworkPending
  /\ NetworkTimeAt(2) = 500
  /\ ret = "ok"

\* a read with retry_timeout = 0 has failed with 'not found' after one lookup
C15_NoRetryWitness ==
  /\ NetworkRead
  /\ d.retry_timeout = 0
  /\ Len(calls) = 1
  /\ ret = "network net-1 not found"

\* AddAssociations has returned an error in the operation
AddAssociationsFailed == \E i \in 1..Len(errs) : errs[i] = "AddAssociations"

\* C16: When AddAssociations fails during the create of a zone, the zone
\* that CreateZone created is destroyed: after the failed create the
\* platform has no zone and no association of it.
C16_FailedCreateLeavesNoZone ==
  ZoneCreate /\ pc = "done" /\ AddAssociationsFailed =>
    /\ IsFailure(ret)
    /\ remote.zones = {}
    /\ remote.associations = {}

\* C17: A supervisor delete returns success only when the supervisor is no
\* longer on the platform, and the wait for the disable returns "could not
\* disable supervisor" as soon as a poll reports ERROR.
C17_SuccessfulDeleteMeansGone ==
  SupervisorDelete =>
    /\ ret = "ok" => d.id \notin remote.supervisors
    /\ info = ErrorConfigStatus => ret = "could not disable supervisor"

\* the hosts newly listed in host_system_ids and the hosts no longer listed
HostsToAdd == d.host_system_ids \ loc.before.hosts
HostsToRemove == loc.before.hosts \ d.host_system_ids

\* C18: In a cluster create or update, the hosts newly listed in
\* host_system_ids, and only they, are moved into the cluster and those of
\* them in maintenance mode are taken out of it before the hosts no longer
\* listed, and only they, are moved out; a host listed before and after is
\* in neither move.
C18_NewHostsInBeforeOldHostsOut ==
  op \in ClusterOps =>
    /\ \A i \in CallsNamed("MoveHostsInto") : Elements(calls[i].arg) = HostsToAdd
    /\ \A i \in CallsNamed("hostsystem.ExitMaintenanceMode") :
         calls[i].arg \in HostsToAdd \cap loc.before.maintenance
    /\ \A i \in CallsNamed("MoveHostsOutOf") :
         /\ Elements(calls[i].arg) = HostsToRemove
         /\ HostsToAdd # {} => \E j \in 1..(i - 1) : calls[j].api = "MoveHostsInto"
         /\ \A h \in HostsToAdd \cap loc.before.maintenance :
              \E j \in 1..(i - 1) :
                calls[j].api = "hostsystem.ExitMaintenanceMode" /\ calls[j].arg = h
         /\ \A j \in (i + 1)..Len(calls) :
              calls[j].api \notin {"MoveHostsInto", "hostsystem.ExitMaintenanceMode"}
         /\ i = Len(calls) =>
              /\ HostsToAdd \subseteq remote.hosts \cup HostsToRemove
              /\ remote.maintenance \cap HostsToAdd = {}
              /\ d.host_system_ids \cap loc.before.hosts \subseteq remote.hosts

\* an update that lists host-2 instead of host-1 has moved host-2, which was
\* in maintenance mode, in and has moved host-1 out
C18_Witness ==
  /\ op = "resourceVSphereComputeClusterUpdate"
  /\ loc.before.hosts = {"host-1"}
  /\ d.host_system_ids = {"host-2"}
  /\ loc.before.maintenance = {"host-2"}
  /\ "MoveHostsOutOf" \in CallNames
  /\ remote.hosts = {"host-2"}
  /\ remote.maintenance = {}

\* an update that keeps host-1 and drops host-2 has moved host-2 out
C18_KeptHostWitness ==
  /\ op = "resourceVSphereComputeClusterUpdate"
  /\ loc.before.hosts = {"host-1", "host-2"}
  /\ d.host_system_ids = {"host-1"}
  /\ "MoveHostsOutOf" \in CallNames
  /\ remote.hosts = {"host-1"}

ClusterCreate == op = "resourceVSphereComputeClusterCreate"

\* the calls that apply the configuration of a cluster
ConfigurationApis == {"ApplyVsanConfig", "Reconfigure"}

\* C19: A cluster create first creates the cluster, with a call that carries
\* no configuration; it moves the hosts in only after that, and applies the
\* configuration only after that, when every host of host_system_ids is in
\* the cluster.
C19_ConfigurationAfterHosts ==
  ClusterCreate =>
    /\ \A i \in CallsNamed("clustercomputeresource.Create") :
         /\ calls[i].arg = d.name
         /\ \A j \in 1..(i - 1) :
              calls[j].api \notin ConfigurationApis \cup {"MoveHostsInto"}
         /\ i = Len(calls) => ~remote.configured /\ remote.hosts = {}
    /\ \A i \in CallsNamed("MoveHostsInto") :
         /\ remote.exists
         /\ \A j \in 1..(i - 1) : calls[j].api \notin ConfigurationApis
    /\ \A i \in 1..Len(calls) :
         calls[i].api \in ConfigurationApis =>
           /\ d.host_system_ids \subseteq remote.hosts
           /\ \A j \in (i + 1)..Len(calls) :
                calls[j].api \notin {"clustercomputeresource.Create", "MoveHostsInto"}
    /\ remote.configured => remote.exists /\ remote.hosts = d.host_system_ids

\* a create with two hosts has applied the configuration
C19_Witness ==
  /\ ClusterCreate
  /\ d.host_system_ids = {"host-1", "host-2"}
  /\ d.config_change
  /\ remote.configured
  /\ remote.hosts = {"host-1", "host-2"}

ClusterDelete == op = "resourceVSphereComputeClusterDelete"

\* C20: A cluster delete never destroys a cluster that has hosts or virtual
\* machines: the delete of such a cluster fails, with the error 'still has
\* hosts or virtual machines' when the check for children has found them,
\* and clustercomputeresource.Delete is not issued.
C20_NonEmptyClusterNotDeleted ==
  ClusterDelete =>
    /\ "clustercomputeresource.Delete" \in CallNames => ~HasChildren(remote)
    /\ HasChildren(remote) =>
         /\ remote.exists
         /\ ret # "ok"
         /\ "HasChildren" \in CallNames /\ calls[Len(calls)].api = "HasChildren"
              /\ errs = <<>> => ret = ClusterNotEmpty

\* the delete of a cluster with a host has failed at the check for children
C20_Witness ==
  /\ ClusterDelete
  /\ remote.hosts # {}
  /\ remote.exists
  /\ "HasChildren" \in CallNames
  /\ ret = ClusterNotEmpty

\* the read at the end of the create did not find the cluster and cleared
\* the ID
ClusterGoneAtRead ==
  /\ ret = "ok"
  /\ errs = <<"clustercomputeresource.FromID">>
  /\ calls[Len(calls)].step = "resourceVSphereComputeClusterRead"

\* C21: In a cluster create the ID of the resource is set as soon as the
\* cluster has been created on the platform, before any later call is
\* issued: a create that fails at a later step (tags, custom attributes,
\* host move, configuration, host image) returns with the ID set, so the
\* cluster it created stays tracked.
C21_CreatedClusterIsTracked ==
  ClusterCreate =>
    /\ ~remote.exists => d.id = ""
    /\ remote.exists /\ ~ClusterGoneAtRead => d.id = ClusterId
    /\ IsFailure(ret) /\ remote.exists => d.id = ClusterId
    /\ \A i \in CallsNamed("clustercomputeresource.Create") :
         i < Len(calls) => remote.exists

\* a create has failed when it moved the hosts in, with the cluster created
\* and its ID set
C21_Witness ==
  /\ ClusterCreate
  /\ IsFailure(ret)
  /\ errs = <<"MoveHostsInto">>
  /\ remote.exists
  /\ d.id = ClusterId

====
